---- MODULE Spec2Model ----
(***************************************************************************)
(* Token lifecycle of AuthManager (src/src/auth/manager.py) and the retry  *)
(* loop of HTTPSession (src/src/http/session.py).                          *)
(*                                                                         *)
(* get_token is modelled per caller, split at the one point where it       *)
(* waits, the blocking POST to the identity provider: the call checks the  *)
(* caches and sends the request; the response is handled (cached, saved,   *)
(* returned) when it arrives.  While a caller waits, callers on other      *)
(* threads run and the clock moves.                                        *)
(* Spec is the AuthManager; SpecHTTP is one HTTPSession.                   *)
(***************************************************************************)
EXTENDS Integers, Sequences, FiniteSets, TLC

VARIABLES
    environment,        \* self.environment
    now,                \* time.time(), in seconds
    cached_token,       \* self._cached_token
    token_expires_at,   \* self._token_expires_at
    token_file,         \* contents of <storage>/token.json
    config_file,        \* contents of <storage>/config.json
    pc,                 \* per caller: "idle", or "wait" inside session.post
    req,                \* per caller: the request in flight (0: none)
    overlapped,         \* per caller: another get_token was in flight with it
    posts,              \* per caller: requests sent by the current invocation
    result,             \* what the last step of get_token returned, raised or sent
    netCalls,           \* requests sent to the identity provider so far
    hist,               \* history: the validity windows that are open
    max_retries,        \* HTTPSession.max_retries
    retry_backoff,      \* HTTPSession.retry_backoff
    client,             \* HTTPSession._client is set
    hpc,                \* position inside HTTPSession.request
    attempt,            \* loop variable of HTTPSession.request
    backoff,            \* local backoff of HTTPSession.request
    last_exception,     \* local last_exception of HTTPSession.request
    log,                \* what each client.request of the current request did
    sleeps,             \* delays the current request has slept, in order
    outcome,            \* what the last HTTPSession.request returned or raised
    manager,            \* the AuthManager object: its credentials and certificate
    cert,               \* what the certificate path names: a file, a directory, nothing
    storage_dir,        \* the storage directory exists
    made,               \* the last AuthManager(...) or from_saved_config call
    config,             \* HTTPExecutor.config (an IntegraConfig)
    xpc,                \* position inside HTTPExecutor.execute
    x_token,            \* local token of execute
    x_jwt_token,        \* local jwt_token of execute
    headers,            \* the headers execute passed to session.request
    xout                \* what the last HTTPExecutor.execute returned or raised

authVars == <<environment, now, cached_token, token_expires_at, token_file,
              config_file, pc, req, overlapped, posts, result, netCalls, hist>>

httpVars == <<max_retries, retry_backoff, client, hpc, attempt, backoff,
              last_exception, log, sleeps, outcome>>

ctorVars == <<manager, cert, storage_dir, made>>

execVars == <<config, xpc, x_token, x_jwt_token, headers, xout>>

vars == <<authVars, httpVars, ctorVars, execVars>>

----------------------------------------------------------------------------
(* Bounds of the model *)

MaxTime == 2
MaxAcq == 2

(* Program constants *)

BUFFER == 60

----------------------------------------------------------------------------
(* Optional values: None, or Some(x) *)

None == <<>>
Some(x) == <<x>>
Val(o) == o[1]

\* The threads that may be inside get_token at once.  They are interchangeable:
\* the one that enters while no other is inside is called FirstCaller.
Callers == {"a", "b"}

FirstCaller == "a"

Environments == {"Production", "Trial"}

\* expires_in values the identity provider may send: the buffer itself, and
\* two seconds more
ExpiresInValues == {BUFFER, BUFFER + 2}

TokenTypes == {"Bearer", "MAC"}

Lower(s) == IF s = "Bearer" THEN "bearer" ELSE IF s = "MAC" THEN "mac" ELSE s

\* TokenResponse: construction fails unless token_type.lower() = "bearer"
TokenResponseOk(data) == Lower(data.token_type) = "bearer"

TokenResponse(data) ==
    [expires_in |-> data.expires_in, token_type |-> data.token_type,
     access_token |-> data.access_token, jwt_token |-> data.jwt_token]

\* the token a 200 response with request id n carries
\* the jwt_token the provider issues with access token n: another string
JwtOf(n) == n + 10

IssuedToken(n, e, tt) ==
    [expires_in |-> e, token_type |-> tt, access_token |-> n,
     jwt_token |-> JwtOf(n)]

----------------------------------------------------------------------------
(* Variants of _is_token_valid with a plausible slip each: the cached      *)
(* token and expiry are not taken as defaults; the 60 second buffer is     *)
(* left out; the buffer is added; the comparison admits the boundary.      *)

IsTokenValidNoDefault(token, expires_at) ==
    IF token = None \/ expires_at = None
    THEN FALSE
    ELSE now < Val(expires_at) - BUFFER

IsTokenValidNoBuffer(token, expires_at) ==
    LET token_to_check == IF token # None THEN token ELSE cached_token
        expires_at_to_check ==
            IF expires_at # None THEN expires_at ELSE token_expires_at
    IN  IF token_to_check = None \/ expires_at_to_check = None
        THEN FALSE
        ELSE now < Val(expires_at_to_check)

IsTokenValidBufferAdded(token, expires_at) ==
    LET token_to_check == IF token # None THEN token ELSE cached_token
        expires_at_to_check ==
            IF expires_at # None THEN expires_at ELSE token_expires_at
    IN  IF token_to_check = None \/ expires_at_to_check = None
        THEN FALSE
        ELSE now < Val(expires_at_to_check) + BUFFER

IsTokenValidInclusive(token, expires_at) ==
    LET token_to_check == IF token # None THEN token ELSE cached_token
        expires_at_to_check ==
            IF expires_at # None THEN expires_at ELSE token_expires_at
    IN  IF token_to_check = None \/ expires_at_to_check = None
        THEN FALSE
        ELSE now <= Val(expires_at_to_check) - BUFFER

----------------------------------------------------------------------------
(* AuthManager._is_token_valid *)

IsTokenValid(token, expires_at) ==
    LET token_to_check == IF token # None THEN token ELSE cached_token
        expires_at_to_check ==
            IF expires_at # None THEN expires_at ELSE token_expires_at
    IN  IF token_to_check = None \/ expires_at_to_check = None
        THEN FALSE
        ELSE now < Val(expires_at_to_check) - BUFFER

----------------------------------------------------------------------------
(* The token file: None when absent, else Some(contents).  Contents that   *)
(* are not JSON have json_ok = FALSE; a JSON object has each key present   *)
(* (Some) or missing (None).                                               *)

BadJson ==
    [json_ok |-> FALSE, expires_in |-> None, token_type |-> None,
     access_token |-> None, jwt_token |-> None, saved_at |-> None]

\* variant: the object is written without its saved_at
TokenFileDataNoSavedAt(token_response) ==
    [json_ok |-> TRUE,
     expires_in |-> Some(token_response.expires_in),
     token_type |-> Some(token_response.token_type),
     access_token |-> Some(token_response.access_token),
     jwt_token |-> Some(token_response.jwt_token),
     saved_at |-> None]

\* AuthManager._save_token_to_file: the object json.dump writes
TokenFileData(token_response) ==
    [json_ok |-> TRUE,
     expires_in |-> Some(token_response.expires_in),
     token_type |-> Some(token_response.token_type),
     access_token |-> Some(token_response.access_token),
     jwt_token |-> Some(token_response.jwt_token),
     saved_at |-> Some(now)]

\* variant: the expiry is counted from the time of loading, not from saved_at
LoadTokenFromFileFromNow ==
    IF token_file = None THEN <<None, None>>
    ELSE LET token_data == Val(token_file) IN
         IF ~token_data.json_ok THEN <<None, None>>
         ELSE IF \/ token_data.expires_in = None
                 \/ token_data.access_token = None
                 \/ token_data.jwt_token = None
                 \/ token_data.token_type = None
              THEN <<None, None>>
         ELSE LET data == [expires_in |-> Val(token_data.expires_in),
                           token_type |-> Val(token_data.token_type),
                           access_token |-> Val(token_data.access_token),
                           jwt_token |-> Val(token_data.jwt_token)]
              IN  IF ~TokenResponseOk(data) THEN <<None, None>>
                  ELSE <<Some(TokenResponse(data)), Some(now + data.expires_in)>>

\* variant: the jwt_token is read from the access_token field
LoadTokenFromFileJwtFromAccess ==
    IF token_file = None THEN <<None, None>>
    ELSE LET token_data == Val(token_file) IN
         IF ~token_data.json_ok THEN <<None, None>>
         ELSE IF \/ token_data.expires_in = None
                 \/ token_data.access_token = None
                 \/ token_data.jwt_token = None
                 \/ token_data.token_type = None
              THEN <<None, None>>
         ELSE LET data == [expires_in |-> Val(token_data.expires_in),
                           token_type |-> Val(token_data.token_type),
                           access_token |-> Val(token_data.access_token),
                           jwt_token |-> Val(token_data.access_token)]
              IN  IF ~TokenResponseOk(data) THEN <<None, None>>
                  ELSE LET saved_at == IF token_data.saved_at = None THEN now
                                       ELSE Val(token_data.saved_at)
                       IN  <<Some(TokenResponse(data)),
                             Some(saved_at + data.expires_in)>>

\* variant: jwt_token is not a required field
LoadTokenFromFileJwtOptional ==
    IF token_file = None THEN <<None, None>>
    ELSE LET token_data == Val(token_file) IN
         IF ~token_data.json_ok THEN <<None, None>>
         ELSE IF \/ token_data.expires_in = None
                 \/ token_data.access_token = None
                 \/ token_data.token_type = None
              THEN <<None, None>>
         ELSE LET data == [expires_in |-> Val(token_data.expires_in),
                           token_type |-> Val(token_data.token_type),
                           access_token |-> Val(token_data.access_token),
                           jwt_token |-> IF token_data.jwt_token = None THEN 0
                                         ELSE Val(token_data.jwt_token)]
              IN  IF ~TokenResponseOk(data) THEN <<None, None>>
                  ELSE LET saved_at == IF token_data.saved_at = None THEN now
                                       ELSE Val(token_data.saved_at)
                       IN  <<Some(TokenResponse(data)),
                             Some(saved_at + data.expires_in)>>

\* AuthManager._load_token_from_file: <<token, expires_at>>, both None when
\* the file is absent, is not JSON, lacks a required field or fails validation
LoadTokenFromFile ==
    IF token_file = None THEN <<None, None>>
    ELSE LET token_data == Val(token_file) IN
         IF ~token_data.json_ok THEN <<None, None>>
         ELSE IF \/ token_data.expires_in = None
                 \/ token_data.access_token = None
                 \/ token_data.jwt_token = None
                 \/ token_data.token_type = None
              THEN <<None, None>>
         ELSE LET data == [expires_in |-> Val(token_data.expires_in),
                           token_type |-> Val(token_data.token_type),
                           access_token |-> Val(token_data.access_token),
                           jwt_token |-> Val(token_data.jwt_token)]
              IN  IF ~TokenResponseOk(data) THEN <<None, None>>
                  ELSE LET saved_at == IF token_data.saved_at = None THEN now
                                       ELSE Val(token_data.saved_at)
                       IN  <<Some(TokenResponse(data)),
                             Some(saved_at + data.expires_in)>>

----------------------------------------------------------------------------
(* The config file: None when absent, else Some(contents) *)

\* AuthManager.save_config: the object json.dump writes for a manager m of
\* environment env at time t
\* variant: the certificate password is not written to disk
ConfigDataOfNoPassword(m, env, t) ==
    [json_ok |-> TRUE,
     consumer_key |-> Some(m.consumer_key),
     consumer_secret |-> Some(m.consumer_secret),
     certificate_path |-> Some(m.certificate_path),
     certificate_password |-> Some(""),
     environment |-> Some(env),
     saved_at |-> Some(t)]

ConfigDataOf(m, env, t) ==
    [json_ok |-> TRUE,
     consumer_key |-> Some(m.consumer_key),
     consumer_secret |-> Some(m.consumer_secret),
     certificate_path |-> Some(m.certificate_path),
     certificate_password |-> Some(m.certificate_password),
     environment |-> Some(env),
     saved_at |-> Some(t)]

ConfigData == ConfigDataOf(manager, environment, now)

BadConfig ==
    [json_ok |-> FALSE, consumer_key |-> None, consumer_secret |-> None,
     certificate_path |-> None, certificate_password |-> None,
     environment |-> None, saved_at |-> None]

\* How a write of open(path, "w") followed by json.dump ends: written; open
\* failed (the file is as it was); dump failed after open truncated the file
WriteOutcomes == {"ok", "open_failed", "dump_failed"}

Written(old, data, bad, w) ==
    IF w = "ok" THEN Some(data)
    ELSE IF w = "open_failed" THEN old
    ELSE Some(bad)

----------------------------------------------------------------------------
(* What the last step did, when it was a step of get_token (kind "none"   *)
(* otherwise).  kind "token" or "error": the invocation of `caller`        *)
(* returned or raised this, having got `response` (status and body) to the *)
(* `requests` it sent, or `exception` from session.post (the response the  *)
(* exception carries, None when it carries none); token_saved and          *)
(* config_saved are the "saved" debug lines of the logger.                 *)
(* kind "sent": the invocation found no valid token                        *)
(* in memory or on disk and sent its request; in_window and in_guarded say *)
(* whether it was called inside a window of hist.                          *)

NoResult ==
    [kind |-> "none", caller |-> "", token |-> None, source |-> "",
     expires_at |-> None, error |-> "", status_code |-> None, message |-> "",
     details |-> None, response |-> None, exception |-> None, requests |-> 0,
     token_saved |-> FALSE, config_saved |-> FALSE,
     in_window |-> FALSE, in_guarded |-> FALSE, after |-> "none"]

Returned(token, source, expires_at) ==
    [NoResult EXCEPT !.kind = "token", !.token = Some(token),
                     !.source = source, !.expires_at = Some(expires_at)]

\* an AuthError, CertificateError or InvalidCredentialsError
RaisedAuth(error, status_code, message, body) ==
    [NoResult EXCEPT !.kind = "error", !.error = error,
                     !.status_code = Some(status_code), !.message = message,
                     !.details = Some(body)]

\* an HTTPError: response_body is None
RaisedHTTP(status_code) ==
    [NoResult EXCEPT !.kind = "error", !.error = "HTTPError",
                     !.status_code = Some(status_code),
                     !.message = "HTTP error during authentication"]

----------------------------------------------------------------------------
(* What the identity provider, or the transport, answers to one POST *)

StatusCodes == {200, 204, 400, 401, 403, 404, 500}

\* bodies of a non-200 response: the provider's error JSON, or anything else
ErrorBodies == {"error_json", "text"}

\* a requests exception: most carry no response, TooManyRedirects carries one
ExceptionResponses == {None, Some(302)}

\* message of lines 342-349, 359-364, 374-381: the provider's message when the
\* body parses as AuthErrorResponse, else a fallback that depends on the status
ErrorMessage(status, body) ==
    IF body = "error_json" THEN "provider_message"
    ELSE IF status = 400 THEN "certificado_invalido"
    ELSE IF status \in {401, 403} THEN "credenciais_invalidas"
    ELSE "authentication_failed_with_status"

\* variant: 403 is not handled with 401
StatusErrorOnly401(status, body) ==
    IF status = 400
    THEN RaisedAuth("CertificateError", 400, ErrorMessage(status, body), body)
    ELSE IF status = 401
    THEN RaisedAuth("InvalidCredentialsError", status,
                    ErrorMessage(status, body), body)
    ELSE RaisedAuth("AuthError", status, ErrorMessage(status, body), body)

\* lines 340-387: the error a non-200 response raises
StatusError(status, body) ==
    IF status = 400
    THEN RaisedAuth("CertificateError", 400, ErrorMessage(status, body), body)
    ELSE IF status \in {401, 403}
    THEN RaisedAuth("InvalidCredentialsError", status,
                    ErrorMessage(status, body), body)
    ELSE RaisedAuth("AuthError", status, ErrorMessage(status, body), body)

\* variant: the status code is read from the response without a default
TransportErrorNoDefault(response) ==
    [RaisedHTTP(0) EXCEPT !.status_code = response]

\* lines 392-401: the HTTPError a requests exception is wrapped in
TransportError(response) ==
    RaisedHTTP(IF response = None THEN 0 ELSE Val(response))

----------------------------------------------------------------------------
(* History kept for the claims about validity windows.                     *)
(*   windowEnd:  the latest t + expires_in - BUFFER over the acquisitions  *)
(*               that succeeded (t: the time of line 329)                  *)
(*   guardedEnd: the same over the acquisitions that no other get_token    *)
(*               overlapped and whose token file write succeeded, since    *)
(*               the last clear_stored_token                               *)
(*   cleared:    the clear operation called last since the last step of a  *)
(*               get_token, "none" if there was none                       *)
(* A window is forgotten (None) once it has closed.                        *)

InFlight(c) == pc[c] # "idle"

Before(end) == end # None /\ now < Val(end)

\* a window that ends at t opens, unless it is closed already or a later one
\* is open
Later(end, t) ==
    IF t > now /\ (end = None \/ Val(end) < t) THEN Some(t) ELSE end

StillOpen(end, t) == IF end # None /\ t < Val(end) THEN end ELSE None

----------------------------------------------------------------------------
(* AuthManager.get_token, caller c *)

\* the invocation ends: r is what it returns or raises
Finish(c, r) ==
    /\ result' = [r EXCEPT !.caller = c, !.requests = posts[c]]
    /\ pc' = [pc EXCEPT ![c] = "idle"]
    /\ req' = [req EXCEPT ![c] = 0]
    /\ posts' = [posts EXCEPT ![c] = 0]
    /\ overlapped' = [overlapped EXCEPT ![c] = FALSE]

\* lines 276-319: the in-memory cache, then the token file, then session.post,
\* called once, on which the caller blocks
GetTokenCall(c) ==
    /\ pc[c] = "idle"
    /\ c = FirstCaller \/ InFlight(FirstCaller)
    /\ LET loaded == LoadTokenFromFile
           file_token == loaded[1]
           file_expires_at == loaded[2]
       IN  IF IsTokenValid(None, None) /\ cached_token # None
           THEN /\ result' = [Returned(Val(cached_token), "memory",
                                       Val(token_expires_at))
                                EXCEPT !.caller = c, !.after = hist.cleared]
                /\ UNCHANGED <<cached_token, token_expires_at, pc, req, posts,
                               overlapped, netCalls>>
           ELSE IF file_token # None /\ IsTokenValid(file_token, file_expires_at)
           THEN /\ cached_token' = file_token
                /\ token_expires_at' = file_expires_at
                /\ result' = [Returned(Val(file_token), "file",
                                       Val(file_expires_at))
                                EXCEPT !.caller = c, !.after = hist.cleared]
                /\ UNCHANGED <<pc, req, posts, overlapped, netCalls>>
           ELSE /\ netCalls < MaxAcq
                /\ netCalls' = netCalls + 1
                /\ req' = [req EXCEPT ![c] = netCalls + 1]
                /\ posts' = [posts EXCEPT ![c] = posts[c] + 1]
                /\ pc' = [pc EXCEPT ![c] = "wait"]
                /\ overlapped' =
                     [d \in Callers |->
                        IF d = c THEN \E e \in Callers \ {c}: InFlight(e)
                        ELSE overlapped[d] \/ InFlight(d)]
                /\ result' = [NoResult EXCEPT
                                !.kind = "sent", !.caller = c,
                                !.requests = posts[c] + 1,
                                !.in_window = Before(hist.windowEnd),
                                !.in_guarded = Before(hist.guardedEnd),
                                !.after = hist.cleared]
                /\ UNCHANGED <<cached_token, token_expires_at>>
    /\ hist' = [hist EXCEPT !.cleared = "none"]
    /\ UNCHANGED <<environment, now, token_file, config_file, httpVars, ctorVars>>

\* variant: a caller that another overlapped keeps a valid token it finds in
\* memory
GetTokenResponse200FirstWins(c) ==
    /\ pc[c] = "wait"
    /\ \E e \in ExpiresInValues, tt \in TokenTypes, wt, wc \in WriteOutcomes:
         LET response_data == IssuedToken(req[c], e, tt)
             response == Some([status |-> 200, body |-> "token_json"])
             token_response == TokenResponse(response_data)
             production == environment = "Production"
         IN  IF TokenResponseOk(response_data)
             THEN /\ IF overlapped[c] /\ IsTokenValid(None, None)
                     THEN UNCHANGED <<cached_token, token_expires_at>>
                     ELSE /\ cached_token' = Some(token_response)
                          /\ token_expires_at' = Some(now + e)
                  /\ token_file' = Written(token_file,
                                           TokenFileData(token_response),
                                           BadJson, wt)
                  /\ config_file' =
                       IF production
                       THEN Written(config_file, ConfigData, BadConfig, wc)
                       ELSE config_file
                  /\ production \/ wc = "ok"
                  /\ hist' =
                       [hist EXCEPT
                          !.cleared = "none",
                          !.windowEnd = Later(hist.windowEnd, now + e - BUFFER),
                          !.guardedEnd =
                             IF wt = "ok" /\ ~overlapped[c]
                             THEN Later(hist.guardedEnd, now + e - BUFFER)
                             ELSE hist.guardedEnd]
                  /\ Finish(c, [Returned(token_response, "network", now + e)
                                  EXCEPT !.response = response,
                                         !.token_saved = (wt = "ok"),
                                         !.config_saved =
                                            (production /\ wc = "ok")])
             ELSE /\ wt = "ok" /\ wc = "ok"
                  /\ Finish(c, [RaisedHTTP(0) EXCEPT !.response = response])
                  /\ hist' = [hist EXCEPT !.cleared = "none"]
                  /\ UNCHANGED <<cached_token, token_expires_at, token_file,
                                 config_file>>
    /\ UNCHANGED <<environment, now, netCalls, httpVars, ctorVars>>

\* lines 322-338 and 402-408: a 200 response.  A body that is a token is cached
\* in memory and saved to the token file, the config is saved in Production,
\* and the token is returned; a body that fails TokenResponse's validation
\* raises HTTPError(0)
GetTokenResponse200(c) ==
    /\ pc[c] = "wait"
    /\ \E e \in ExpiresInValues, tt \in TokenTypes, wt, wc \in WriteOutcomes:
         LET response_data == IssuedToken(req[c], e, tt)
             response == Some([status |-> 200, body |-> "token_json"])
             token_response == TokenResponse(response_data)
             production == environment = "Production"
         IN  IF TokenResponseOk(response_data)
             THEN /\ cached_token' = Some(token_response)
                  /\ token_expires_at' = Some(now + e)
                  /\ token_file' = Written(token_file,
                                           TokenFileData(token_response),
                                           BadJson, wt)
                  /\ config_file' =
                       IF production
                       THEN Written(config_file, ConfigData, BadConfig, wc)
                       ELSE config_file
                  /\ production \/ wc = "ok"
                  /\ hist' =
                       [hist EXCEPT
                          !.cleared = "none",
                          !.windowEnd = Later(hist.windowEnd, now + e - BUFFER),
                          !.guardedEnd =
                             IF wt = "ok" /\ ~overlapped[c]
                             THEN Later(hist.guardedEnd, now + e - BUFFER)
                             ELSE hist.guardedEnd]
                  /\ Finish(c, [Returned(token_response, "network", now + e)
                                  EXCEPT !.response = response,
                                         !.token_saved = (wt = "ok"),
                                         !.config_saved =
                                            (production /\ wc = "ok")])
             ELSE /\ wt = "ok" /\ wc = "ok"
                  /\ Finish(c, [RaisedHTTP(0) EXCEPT !.response = response])
                  /\ hist' = [hist EXCEPT !.cleared = "none"]
                  /\ UNCHANGED <<cached_token, token_expires_at, token_file,
                                 config_file>>
    /\ UNCHANGED <<environment, now, netCalls, httpVars, ctorVars>>

\* variant: a failed acquisition forgets the token in memory
GetTokenResponseErrorClearsCache(c) ==
    /\ pc[c] = "wait"
    /\ \E status \in StatusCodes \ {200}, body \in ErrorBodies:
         Finish(c, [StatusError(status, body) EXCEPT
                      !.response = Some([status |-> status, body |-> body])])
    /\ hist' = [hist EXCEPT !.cleared = "none"]
    /\ cached_token' = None
    /\ token_expires_at' = None
    /\ UNCHANGED <<environment, now, token_file, config_file, netCalls,
                   httpVars, ctorVars>>

\* lines 340-391: any other status
GetTokenResponseError(c) ==
    /\ pc[c] = "wait"
    /\ \E status \in StatusCodes \ {200}, body \in ErrorBodies:
         Finish(c, [StatusError(status, body) EXCEPT
                      !.response = Some([status |-> status, body |-> body])])
    /\ hist' = [hist EXCEPT !.cleared = "none"]
    /\ UNCHANGED <<environment, now, cached_token, token_expires_at, token_file,
                   config_file, netCalls, httpVars, ctorVars>>

\* lines 392-401: session.post raised
GetTokenRequestException(c) ==
    /\ pc[c] = "wait"
    /\ \E response \in ExceptionResponses:
         Finish(c, [TransportError(response) EXCEPT
                      !.exception = Some(response)])
    /\ hist' = [hist EXCEPT !.cleared = "none"]
    /\ UNCHANGED <<environment, now, cached_token, token_expires_at, token_file,
                   config_file, netCalls, httpVars, ctorVars>>

----------------------------------------------------------------------------
(* The other operations of the manager, and the clock *)

\* variant: clear_cache forgets the expiry
ClearCacheTokenOnly ==
    /\ cached_token' = None
    /\ hist' = [hist EXCEPT !.cleared = "clear_cache"]
    /\ result' = NoResult
    /\ UNCHANGED <<environment, now, token_expires_at, token_file, config_file,
                   pc, req, overlapped, posts, netCalls, httpVars, ctorVars>>

\* variant: clear_cache deletes the token file too
ClearCacheAndFile ==
    /\ cached_token' = None
    /\ token_expires_at' = None
    /\ token_file' = None
    /\ hist' = [hist EXCEPT !.cleared = "clear_cache"]
    /\ result' = NoResult
    /\ UNCHANGED <<environment, now, config_file, pc, req, overlapped, posts,
                   netCalls, httpVars, ctorVars>>

\* AuthManager.clear_cache
ClearCache ==
    /\ cached_token' = None
    /\ token_expires_at' = None
    /\ hist' = [hist EXCEPT !.cleared = "clear_cache"]
    /\ result' = NoResult
    /\ UNCHANGED <<environment, now, token_file, config_file, pc, req,
                   overlapped, posts, netCalls, httpVars, ctorVars>>

\* variant: clear_stored_token deletes the file and leaves the cache
ClearStoredTokenFileOnly ==
    /\ \E unlinked \in BOOLEAN:
         token_file' = IF token_file # None /\ unlinked THEN None ELSE token_file
    /\ hist' = [hist EXCEPT !.guardedEnd = None,
                            !.cleared = "clear_stored_token"]
    /\ result' = NoResult
    /\ UNCHANGED <<environment, now, cached_token, token_expires_at,
                   config_file, pc, req, overlapped, posts, netCalls, httpVars, ctorVars>>

\* AuthManager.clear_stored_token: unlink may fail, which is logged only
ClearStoredToken ==
    /\ cached_token' = None
    /\ token_expires_at' = None
    /\ \E unlinked \in BOOLEAN:
         token_file' = IF token_file # None /\ unlinked THEN None ELSE token_file
    /\ hist' = [hist EXCEPT !.guardedEnd = None,
                            !.cleared = "clear_stored_token"]
    /\ result' = NoResult
    /\ UNCHANGED <<environment, now, config_file, pc, req, overlapped, posts,
                   netCalls, httpVars, ctorVars>>

\* AuthManager.save_config, called by the application
SaveConfig ==
    /\ \E w \in WriteOutcomes:
         config_file' = Written(config_file, ConfigData, BadConfig, w)
    /\ result' = NoResult
    /\ UNCHANGED <<environment, now, cached_token, token_expires_at, token_file,
                   pc, req, overlapped, posts, netCalls, hist, httpVars, ctorVars>>

\* time.time() advances
Tick ==
    /\ now < MaxTime
    /\ now' = now + 1
    /\ hist' = [hist EXCEPT !.windowEnd = StillOpen(hist.windowEnd, now + 1),
                            !.guardedEnd = StillOpen(hist.guardedEnd, now + 1)]
    /\ result' = NoResult
    /\ UNCHANGED <<environment, cached_token, token_expires_at, token_file,
                   config_file, pc, req, overlapped, posts, netCalls, httpVars, ctorVars>>

----------------------------------------------------------------------------
(* AuthManager.__init__.  Strings are the few the arguments are drawn      *)
(* from; the certificate path names one place on disk, whose state is      *)
(* cert.                                                                   *)

\* str.strip()
Strip(s) == IF s = " " THEN "" ELSE IF s = " key " THEN "key" ELSE s

\* Path(v).resolve(): the absolute path of a relative one
Resolve(path) == IF path = "cert.p12" THEN "/abs/cert.p12" ELSE path

\* Path.exists() and Path.is_file() of a path
PathState(path) == IF Resolve(path) = "/abs/cert.p12" THEN cert ELSE "missing"

\* variant: the certificate path is checked to exist, not to be a file
InitErrorNoFileCheck(consumer_key, consumer_secret, certificate_path, certificate_password, env) ==
    IF Strip(consumer_key) = "" \/ Strip(consumer_secret) = ""
    THEN "Consumer key and secret cannot be empty"
    ELSE IF certificate_path = "" THEN "Certificate path is required"
    ELSE IF certificate_password = "" THEN "Certificate password is required"
    ELSE IF Strip(certificate_path) = "" THEN "Certificate path cannot be empty"
    ELSE IF PathState(certificate_path) = "missing"
    THEN "Certificate file not found"
    ELSE IF env # None /\ Val(env) \notin Environments
    THEN "not a valid Environment"
    ELSE ""

\* the ValueError __init__ raises for these arguments, "" when it raises none.
\* pydantic's ValidationError, raised by the validators of AuthCredentials and
\* CertificateConfig, is a ValueError
InitError(consumer_key, consumer_secret, certificate_path, certificate_password, env) ==
    IF Strip(consumer_key) = "" \/ Strip(consumer_secret) = ""
    THEN "Consumer key and secret cannot be empty"
    ELSE IF certificate_path = "" THEN "Certificate path is required"
    ELSE IF certificate_password = "" THEN "Certificate password is required"
    ELSE IF Strip(certificate_path) = "" THEN "Certificate path cannot be empty"
    ELSE IF PathState(certificate_path) = "missing"
    THEN "Certificate file not found"
    ELSE IF PathState(certificate_path) # "file"
    THEN "Certificate path is not a file"
    ELSE IF env # None /\ Val(env) \notin Environments
    THEN "not a valid Environment"
    ELSE ""

NoManager ==
    [kind |-> "none", consumer_key |-> "", consumer_secret |-> "",
     certificate_path |-> "", certificate_password |-> ""]

\* variant: the configuration is saved in every environment
AuthManagerInitSavesConfig(consumer_key, consumer_secret, certificate_path, certificate_password, env) ==
    /\ InitError(consumer_key, consumer_secret, certificate_path,
                 certificate_password, env) = ""
    /\ LET m == [kind |-> "manager", consumer_key |-> Strip(consumer_key),
                 consumer_secret |-> Strip(consumer_secret),
                 certificate_path |-> Resolve(certificate_path),
                 certificate_password |-> certificate_password]
           e == IF env = None THEN "Production" ELSE Val(env)
       IN  /\ manager' = m
           /\ environment' = e
           /\ storage_dir' = TRUE
           /\ cached_token' = None
           /\ token_expires_at' = None
           /\ \E w \in WriteOutcomes:
                config_file' = Written(config_file, ConfigDataOf(m, e, now),
                                       BadConfig, w)

\* lines 65-123, for arguments that raise nothing: the object's attributes,
\* the storage directory, and in Production save_config()
AuthManagerInit(consumer_key, consumer_secret, certificate_path, certificate_password, env) ==
    /\ InitError(consumer_key, consumer_secret, certificate_path,
                 certificate_password, env) = ""
    /\ LET m == [kind |-> "manager", consumer_key |-> Strip(consumer_key),
                 consumer_secret |-> Strip(consumer_secret),
                 certificate_path |-> Resolve(certificate_path),
                 certificate_password |-> certificate_password]
           e == IF env = None THEN "Production" ELSE Val(env)
       IN  /\ manager' = m
           /\ environment' = e
           /\ storage_dir' = TRUE
           /\ cached_token' = None
           /\ token_expires_at' = None
           /\ IF e = "Production"
              THEN \E w \in WriteOutcomes:
                     config_file' = Written(config_file, ConfigDataOf(m, e, now),
                                            BadConfig, w)
              ELSE config_file' = config_file

\* the application constructs the manager again, with the arguments it was
\* constructed with, on the same storage directory: a new session
Construct ==
    /\ \A c \in Callers: pc[c] = "idle"
    /\ AuthManagerInit(manager.consumer_key, manager.consumer_secret,
                       manager.certificate_path, manager.certificate_password,
                       Some(environment))
    /\ hist' = [windowEnd |-> None, guardedEnd |-> None, cleared |-> "none"]
    /\ result' = NoResult
    /\ UNCHANGED <<now, token_file, pc, req, overlapped, posts, netCalls, cert,
                   made, httpVars>>

----------------------------------------------------------------------------
(* The state after AuthManager.__init__ with valid arguments.  The storage *)
(* directory may hold a token file: one an earlier session of the manager  *)
(* wrote, or one something else left there.                                *)

EarlierToken(e, saved_at) ==
    [TokenFileData(IssuedToken(0, e, "Bearer")) EXCEPT !.saved_at = saved_at]

InitTokenFiles ==
    {None, Some(BadJson),
     Some(EarlierToken(BUFFER + 2, Some(0))),
     Some(EarlierToken(BUFFER + 2, Some(-2))),
     Some(EarlierToken(BUFFER + 2, None)),
     Some([EarlierToken(BUFFER + 2, Some(0)) EXCEPT !.jwt_token = None])}

\* the manager of valid arguments, its certificate in place
TheManager ==
    [kind |-> "manager", consumer_key |-> "key", consumer_secret |-> "secret",
     certificate_path |-> "/abs/cert.p12", certificate_password |-> "pw"]

\* a manager of other credentials, for the same certificate
OtherManager ==
    [TheManager EXCEPT !.consumer_key = "key2", !.certificate_password = "pw2"]

\* no call of AuthManager(...) or from_saved_config is on record
NoCall ==
    [op |-> "none", kind |-> "none", error |-> "", args |-> <<>>,
     found |-> <<>>]

Constructed ==
    /\ manager = TheManager
    /\ cert = "file"
    /\ storage_dir = TRUE
    /\ made = NoCall

AuthInit ==
    /\ Constructed
    /\ environment \in Environments
    /\ now = 0
    /\ cached_token = None
    /\ token_expires_at = None
    /\ token_file \in InitTokenFiles
    /\ config_file \in
         IF environment = "Production"
         THEN {Written(None, ConfigData, BadConfig, w) : w \in WriteOutcomes}
         ELSE {None}
    /\ pc = [c \in Callers |-> "idle"]
    /\ req = [c \in Callers |-> 0]
    /\ overlapped = [c \in Callers |-> FALSE]
    /\ posts = [c \in Callers |-> 0]
    /\ result = NoResult
    /\ netCalls = 0
    /\ hist = [windowEnd |-> None, guardedEnd |-> None, cleared |-> "none"]

\* the manager alone: no executor runs
AuthNext ==
    \/ (\E c \in Callers: GetTokenCall(c)) /\ UNCHANGED execVars
    \/ (\E c \in Callers: GetTokenResponse200(c)) /\ UNCHANGED execVars
    \/ (\E c \in Callers: GetTokenResponseError(c)) /\ UNCHANGED execVars
    \/ (\E c \in Callers: GetTokenRequestException(c)) /\ UNCHANGED execVars
    \/ ClearCache /\ UNCHANGED execVars
    \/ ClearStoredToken /\ UNCHANGED execVars
    \/ SaveConfig /\ UNCHANGED execVars
    \/ Construct /\ UNCHANGED execVars
    \/ Tick /\ UNCHANGED execVars

----------------------------------------------------------------------------
(* Constructing managers: AuthManager(...) with any arguments, and         *)
(* AuthManager.from_saved_config, on a storage directory that earlier      *)
(* sessions, or anything else, may have written.                           *)

ConsumerKeys == {"", " ", " key "}

ConsumerSecrets == {"", "secret"}

CertificatePaths == {"", " ", "cert.p12", "other.p12"}

CertificatePasswords == {"", "pw"}

\* the environment argument: None, the name of an environment, another string
EnvironmentArgs == {None, Some("Trial"), Some("Production"), Some("Staging")}

CertStates == {"file", "dir", "missing"}

\* the class of the ValueError: pydantic's ValidationError when a validator
\* of the models raised it
InitErrorType(message) ==
    IF message \in {"Consumer key and secret cannot be empty",
                    "Certificate path cannot be empty"}
    THEN "ValidationError"
    ELSE "ValueError"

\* what a call finds: the storage directory and the certificate
Found ==
    [config_file |-> config_file, token_file |-> token_file,
     storage_dir |-> storage_dir, cert |-> cert]

\* AuthManager(consumer_key, ..., environment, token_storage_path)
NewAuthManager ==
    /\ \E consumer_key \in ConsumerKeys, consumer_secret \in ConsumerSecrets,
          certificate_path \in CertificatePaths,
          certificate_password \in CertificatePasswords,
          env \in EnvironmentArgs:
         LET message == InitError(consumer_key, consumer_secret,
                                  certificate_path, certificate_password, env)
             call == [NoCall EXCEPT
                        !.op = "construct",
                        !.args = <<consumer_key, consumer_secret,
                                   certificate_path, certificate_password, env>>,
                        !.found = Found]
         IN  IF message = ""
             THEN /\ AuthManagerInit(consumer_key, consumer_secret,
                                     certificate_path, certificate_password, env)
                  /\ made' = [call EXCEPT !.kind = "manager"]
             ELSE /\ made' = [call EXCEPT !.kind = "error", !.error = message]
                  /\ manager' = NoManager
                  /\ UNCHANGED <<environment, storage_dir, cached_token,
                                 token_expires_at, config_file>>
    /\ UNCHANGED <<now, token_file, pc, req, overlapped, posts, result,
                   netCalls, hist, cert, httpVars, execVars>>

\* AuthManager.load_config: the SavedAuthConfig of the config file, None when
\* there is no file, it is not JSON, or a required field is missing
LoadConfig(file) ==
    IF file = None THEN None
    ELSE LET config_data == Val(file) IN
         IF ~config_data.json_ok THEN None
         ELSE IF \/ config_data.consumer_key = None
                 \/ config_data.consumer_secret = None
                 \/ config_data.certificate_path = None
                 \/ config_data.certificate_password = None
                 \/ config_data.environment = None
              THEN None
         ELSE Some([consumer_key |-> Val(config_data.consumer_key),
                    consumer_secret |-> Val(config_data.consumer_secret),
                    certificate_path |-> Val(config_data.certificate_path),
                    certificate_password |->
                       Val(config_data.certificate_password),
                    environment |-> Val(config_data.environment),
                    saved_at |-> config_data.saved_at])

\* AuthManager.from_saved_config, up to the constructor call: "nothing" for
\* None, "error" for the ValueError that leaves it, "manager" when cls(...)
\* is called with arguments that raise nothing
FromSavedConfigResult(env) ==
    LET saved_config == LoadConfig(config_file)
        nothing == [kind |-> "nothing", error |-> ""]
        raised(message) == [kind |-> "error", error |-> message]
    IN  IF saved_config = None THEN nothing
        ELSE IF env # None /\ Val(env) \notin Environments
        THEN raised("not a valid Environment")
        ELSE IF env # None /\ Val(env) # Val(saved_config).environment
        THEN nothing
        ELSE IF PathState(Val(saved_config).certificate_path) = "missing"
        THEN nothing
        ELSE LET c == Val(saved_config)
                 message == InitError(c.consumer_key, c.consumer_secret,
                                      c.certificate_path,
                                      c.certificate_password,
                                      Some(c.environment))
             IN  IF message # "" THEN raised(message)
                 ELSE [kind |-> "manager", error |-> ""]

\* lines 546-554: cls(...) with the saved values
FromSavedConfigInit ==
    LET c == Val(LoadConfig(config_file))
    IN  AuthManagerInit(c.consumer_key, c.consumer_secret, c.certificate_path,
                        c.certificate_password, Some(c.environment))

\* AuthManager.from_saved_config(token_storage_path, environment)
FromSavedConfig ==
    /\ \E env \in EnvironmentArgs:
         LET r == FromSavedConfigResult(env)
             call == [NoCall EXCEPT !.op = "from_saved_config",
                                    !.args = <<env>>, !.found = Found]
         IN  /\ made' = [call EXCEPT !.kind = r.kind, !.error = r.error]
             /\ IF r.kind = "manager"
                THEN FromSavedConfigInit
                ELSE /\ manager' = NoManager
                     /\ UNCHANGED <<environment, storage_dir, cached_token,
                                    token_expires_at, config_file>>
    /\ UNCHANGED <<now, token_file, pc, req, overlapped, posts, result,
                   netCalls, hist, cert, httpVars, execVars>>

\* the certificate file is removed, replaced by a directory, or put back
CertificateChanges ==
    /\ \E state \in CertStates \ {cert}: cert' = state
    /\ UNCHANGED <<manager, storage_dir, made, authVars, httpVars, execVars>>

\* config files an earlier session left: of a Production manager, of a Trial
\* manager that called save_config; and files something else left: not JSON,
\* a field missing, an environment that is none
StoredConfigs ==
    {None,
     Some(ConfigDataOf(TheManager, "Production", 0)),
     Some(ConfigDataOf(TheManager, "Trial", 0)),
     Some(ConfigDataOf(OtherManager, "Trial", 0)),
     Some(BadConfig),
     Some([ConfigDataOf(TheManager, "Production", 0) EXCEPT
             !.certificate_password = None]),
     Some(ConfigDataOf(TheManager, "Staging", 0))}

ConstructInit ==
    /\ now = 0
    /\ manager = NoManager
    /\ made = NoCall
    /\ cert \in CertStates
    /\ storage_dir \in BOOLEAN
    /\ config_file \in IF storage_dir THEN StoredConfigs ELSE {None}
    /\ token_file \in
         IF storage_dir
         THEN {None, Some(EarlierToken(BUFFER + 2, Some(0)))}
         ELSE {None}
    /\ environment = "Trial"
    /\ cached_token = None
    /\ token_expires_at = None
    /\ pc = [c \in Callers |-> "idle"]
    /\ req = [c \in Callers |-> 0]
    /\ overlapped = [c \in Callers |-> FALSE]
    /\ posts = [c \in Callers |-> 0]
    /\ result = NoResult
    /\ netCalls = 0
    /\ hist = [windowEnd |-> None, guardedEnd |-> None, cleared |-> "none"]

NextConstruct ==
    \/ NewAuthManager
    \/ FromSavedConfig
    \/ CertificateChanges
    \/ manager.kind = "manager" /\ SaveConfig /\ UNCHANGED execVars

----------------------------------------------------------------------------
(* HTTPSession (src/src/http/session.py): one session object, on which the *)
(* application makes one request after another.                            *)

MaxRetries == 3

\* retry_backoff values, in units of the base delay
BackoffValues == {1, 2}

\* what client.request does on one attempt: it returns a response of some
\* status, or raises TimeoutException or NetworkError (caught and retried),
\* HTTPStatusError (caught and raised again), or another exception (not caught)
HTTPStatuses == {200, 400, 404, 499, 500, 503}

Retryable == {"TimeoutException", "NetworkError"}

NotRetried == {"HTTPStatusError", "ProtocolError"}

NoOutcome == [kind |-> "none", status |-> 0, exception |-> None, attempts |-> 0,
              sleeps |-> <<>>]

\* log entries: a response of a status, or an exception of a type
Response(status) == [type |-> "response", status |-> status]

Raised(type) == [type |-> type, status |-> 0]

\* HTTPSession.__init__
HTTPInit ==
    /\ max_retries \in -1 .. MaxRetries
    /\ retry_backoff \in BackoffValues
    /\ client = FALSE
    /\ hpc = "idle"
    /\ attempt = 0
    /\ backoff = 0
    /\ last_exception = None
    /\ log = <<>>
    /\ sleeps = <<>>
    /\ outcome = NoOutcome

\* the request ends: it returns (kind "response", or "nothing" for the None of
\* a loop that never ran) or raises (kind "raised")
HTTPFinish(kind, status, exception) ==
    /\ outcome' = [kind |-> kind, status |-> status, exception |-> exception,
                   attempts |-> Len(log'), sleeps |-> sleeps]
    /\ hpc' = "idle"

\* lines 69-72 (and 92-93 when range(max_retries + 1) is empty)
HTTPRequest ==
    /\ hpc = "idle"
    /\ last_exception' = None
    /\ backoff' = retry_backoff
    /\ log' = <<>>
    /\ sleeps' = <<>>
    /\ attempt' = 0
    /\ IF max_retries + 1 > 0
       THEN hpc' = "attempt" /\ outcome' = NoOutcome
       ELSE outcome' = [NoOutcome EXCEPT !.kind = "nothing"] /\ hpc' = "idle"
    /\ UNCHANGED <<max_retries, retry_backoff, client, authVars, ctorVars>>

\* variant: a 5xx response is retried like a network error
HTTPAttemptResponseRetries5xx ==
    /\ hpc = "attempt"
    /\ client' = TRUE
    /\ \E status \in HTTPStatuses:
         /\ log' = Append(log, Response(status))
         /\ IF status >= 500 /\ attempt < max_retries
            THEN hpc' = "sleep" /\ UNCHANGED outcome
            ELSE HTTPFinish("response", status, None)
    /\ UNCHANGED <<max_retries, retry_backoff, attempt, backoff, last_exception,
                   sleeps, authVars, ctorVars>>

\* lines 73-80: client.request returns a response, which is returned
HTTPAttemptResponse ==
    /\ hpc = "attempt"
    /\ client' = TRUE
    /\ \E status \in HTTPStatuses:
         /\ log' = Append(log, Response(status))
         /\ HTTPFinish("response", status, None)
    /\ UNCHANGED <<max_retries, retry_backoff, attempt, backoff, last_exception,
                   sleeps, authVars, ctorVars>>

\* variant: the last retry is not made
HTTPAttemptRetryableOffByOne ==
    /\ hpc = "attempt"
    /\ client' = TRUE
    /\ \E type \in Retryable:
         LET e == Some([type |-> type, attempt |-> attempt])
         IN  /\ log' = Append(log, Raised(type))
             /\ last_exception' = e
             /\ IF attempt + 1 < max_retries
                THEN hpc' = "sleep" /\ UNCHANGED outcome
                ELSE HTTPFinish("raised", 0, e)
    /\ UNCHANGED <<max_retries, retry_backoff, attempt, backoff, sleeps,
                   authVars, ctorVars>>

\* lines 81-87: a timeout or a network error; retried while attempt < max_retries
HTTPAttemptRetryable ==
    /\ hpc = "attempt"
    /\ client' = TRUE
    /\ \E type \in Retryable:
         LET e == Some([type |-> type, attempt |-> attempt])
         IN  /\ log' = Append(log, Raised(type))
             /\ last_exception' = e
             /\ IF attempt < max_retries
                THEN hpc' = "sleep" /\ UNCHANGED outcome
                ELSE HTTPFinish("raised", 0, e)
    /\ UNCHANGED <<max_retries, retry_backoff, attempt, backoff, sleeps,
                   authVars, ctorVars>>

\* lines 88-90, and any exception the except clauses do not name: raised as is
HTTPAttemptRaises ==
    /\ hpc = "attempt"
    /\ client' = TRUE
    /\ \E type \in NotRetried:
         /\ log' = Append(log, Raised(type))
         /\ HTTPFinish("raised", 0, Some([type |-> type, attempt |-> attempt]))
    /\ UNCHANGED <<max_retries, retry_backoff, attempt, backoff, last_exception,
                   sleeps, authVars, ctorVars>>

\* variant: the delay grows by the base instead of doubling
HTTPSleepLinear ==
    /\ hpc = "sleep"
    /\ sleeps' = Append(sleeps, backoff)
    /\ backoff' = backoff + retry_backoff
    /\ attempt' = attempt + 1
    /\ hpc' = "attempt"
    /\ UNCHANGED <<max_retries, retry_backoff, client, last_exception, log,
                   outcome, authVars, ctorVars>>

\* lines 84-85 and the next iteration of line 72: the sleep ends
HTTPSleep ==
    /\ hpc = "sleep"
    /\ sleeps' = Append(sleeps, backoff)
    /\ backoff' = backoff * 2
    /\ attempt' = attempt + 1
    /\ hpc' = "attempt"
    /\ UNCHANGED <<max_retries, retry_backoff, client, last_exception, log,
                   outcome, authVars, ctorVars>>

\* HTTPSession.close
HTTPClose ==
    /\ hpc = "idle"
    /\ client
    /\ client' = FALSE
    /\ UNCHANGED <<max_retries, retry_backoff, hpc, attempt, backoff,
                   last_exception, log, sleeps, outcome, authVars, ctorVars>>

\* the session alone: no executor runs
HTTPNext ==
    \/ HTTPRequest /\ UNCHANGED execVars
    \/ HTTPAttemptResponse /\ UNCHANGED execVars
    \/ HTTPAttemptRetryable /\ UNCHANGED execVars
    \/ HTTPAttemptRaises /\ UNCHANGED execVars
    \/ HTTPSleep /\ UNCHANGED execVars
    \/ HTTPClose /\ UNCHANGED execVars

----------------------------------------------------------------------------
(* The specifications.  Spec: one AuthManager, its session untouched.      *)
(* SpecHTTP: one HTTPSession, the manager untouched.                       *)

HTTPIdle ==
    /\ max_retries = 0
    /\ retry_backoff = 1
    /\ client = FALSE
    /\ hpc = "idle"
    /\ attempt = 0
    /\ backoff = 0
    /\ last_exception = None
    /\ log = <<>>
    /\ sleeps = <<>>
    /\ outcome = NoOutcome

\* no executor
NoHeaders == [Authorization |-> None, content_type |-> "", jwt_token |-> None]

NoExecution ==
    [kind |-> "none", error |-> "", status_code |-> None,
     response_body |-> None, data |-> None, response |-> None]

ExecIdle ==
    /\ config = [environment |-> "Trial", token |-> 0, auth_manager |-> FALSE]
    /\ xpc = "idle"
    /\ x_token = None
    /\ x_jwt_token = None
    /\ headers = NoHeaders
    /\ xout = NoExecution

AuthIdle ==
    /\ Constructed
    /\ environment = "Trial"
    /\ now = 0
    /\ cached_token = None
    /\ token_expires_at = None
    /\ token_file = None
    /\ config_file = None
    /\ pc = [c \in Callers |-> "idle"]
    /\ req = [c \in Callers |-> 0]
    /\ overlapped = [c \in Callers |-> FALSE]
    /\ posts = [c \in Callers |-> 0]
    /\ result = NoResult
    /\ netCalls = 0
    /\ hist = [windowEnd |-> None, guardedEnd |-> None, cleared |-> "none"]

Init == AuthInit /\ HTTPIdle /\ ExecIdle

Next == AuthNext

Spec == Init /\ [][Next]_vars

\* token files that are not a token of the persisted format: not JSON, a
\* field missing, a type that is not Bearer; and one that is
StoredTokenFiles ==
    {Some(BadJson),
     Some([EarlierToken(BUFFER + 2, Some(0)) EXCEPT !.expires_in = None]),
     Some([EarlierToken(BUFFER + 2, Some(0)) EXCEPT !.token_type = None]),
     Some([EarlierToken(BUFFER + 2, Some(0)) EXCEPT !.access_token = None]),
     Some([EarlierToken(BUFFER + 2, Some(0)) EXCEPT !.jwt_token = None]),
     Some([EarlierToken(BUFFER + 2, Some(0)) EXCEPT !.token_type = Some("MAC")]),
     Some(EarlierToken(BUFFER + 2, None)),
     Some(EarlierToken(BUFFER + 2, Some(0)))}

\* a Trial manager constructed on a storage directory with such a file
FilesInit ==
    /\ Constructed
    /\ environment = "Trial"
    /\ now = 0
    /\ cached_token = None
    /\ token_expires_at = None
    /\ token_file \in StoredTokenFiles
    /\ config_file = None
    /\ pc = [c \in Callers |-> "idle"]
    /\ req = [c \in Callers |-> 0]
    /\ overlapped = [c \in Callers |-> FALSE]
    /\ posts = [c \in Callers |-> 0]
    /\ result = NoResult
    /\ netCalls = 0
    /\ hist = [windowEnd |-> None, guardedEnd |-> None, cleared |-> "none"]

InitFiles == FilesInit /\ HTTPIdle /\ ExecIdle

SpecFiles == InitFiles /\ [][Next]_vars

\* one manager whose writes of the token file and whose unlink succeed
NextAgree ==
    \/ (\E c \in Callers: GetTokenCall(c)) /\ UNCHANGED execVars
    \/ /\ \E c \in Callers: GetTokenResponse200(c)
       /\ result'.kind = "token" => result'.token_saved
       /\ UNCHANGED execVars
    \/ (\E c \in Callers: GetTokenResponseError(c)) /\ UNCHANGED execVars
    \/ (\E c \in Callers: GetTokenRequestException(c)) /\ UNCHANGED execVars
    \/ ClearCache /\ UNCHANGED execVars
    \/ ClearStoredToken /\ token_file' = None /\ UNCHANGED execVars
    \/ Tick /\ UNCHANGED execVars

SpecAgree == Init /\ [][NextAgree]_vars

\* the application constructs a manager of other credentials on the storage
\* directory of the manager it had (the default one, or the same path)
ChangeCredentials ==
    /\ manager = TheManager
    /\ \A c \in Callers: pc[c] = "idle"
    /\ \E env \in Environments:
         /\ AuthManagerInit(OtherManager.consumer_key,
                            OtherManager.consumer_secret, "cert.p12",
                            OtherManager.certificate_password, Some(env))
         /\ made' = [NoCall EXCEPT
                       !.op = "construct", !.kind = "manager",
                       !.args = <<OtherManager.consumer_key,
                                  OtherManager.consumer_secret, "cert.p12",
                                  OtherManager.certificate_password, Some(env)>>,
                       !.found = Found]
    /\ hist' = [windowEnd |-> None, guardedEnd |-> None, cleared |-> "none"]
    /\ result' = NoResult
    /\ UNCHANGED <<now, token_file, pc, req, overlapped, posts, netCalls, cert,
                   httpVars>>

\* a manager on a new storage directory, nothing called yet
SharedInit ==
    /\ Constructed
    /\ environment \in Environments
    /\ now = 0
    /\ cached_token = None
    /\ token_expires_at = None
    /\ token_file = None
    /\ config_file =
         IF environment = "Production" THEN Some(ConfigData) ELSE None
    /\ pc = [c \in Callers |-> "idle"]
    /\ req = [c \in Callers |-> 0]
    /\ overlapped = [c \in Callers |-> FALSE]
    /\ posts = [c \in Callers |-> 0]
    /\ result = NoResult
    /\ netCalls = 0
    /\ hist = [windowEnd |-> None, guardedEnd |-> None, cleared |-> "none"]

InitShared == SharedInit /\ HTTPIdle /\ ExecIdle

\* one manager, then a manager of other credentials on its storage directory
NextShared ==
    \/ (\E c \in Callers: GetTokenCall(c)) /\ UNCHANGED execVars
    \/ (\E c \in Callers: GetTokenResponse200(c)) /\ UNCHANGED execVars
    \/ (\E c \in Callers: GetTokenResponseError(c)) /\ UNCHANGED execVars
    \/ (\E c \in Callers: GetTokenRequestException(c)) /\ UNCHANGED execVars
    \/ ClearCache /\ UNCHANGED execVars
    \/ ClearStoredToken /\ UNCHANGED execVars
    \/ ChangeCredentials /\ UNCHANGED execVars
    \/ Tick /\ UNCHANGED execVars

SpecShared == InitShared /\ [][NextShared]_vars

InitHTTP == AuthIdle /\ HTTPInit /\ ExecIdle

NextHTTP == HTTPNext

SpecHTTP == InitHTTP /\ [][NextHTTP]_vars

InitConstruct == ConstructInit /\ HTTPIdle /\ ExecIdle

SpecConstruct == InitConstruct /\ [][NextConstruct]_vars

----------------------------------------------------------------------------
(* HTTPExecutor (src/src/http/executor.py): one executor with its config   *)
(* and its session; execute is called again and again, one call at a time. *)
(* Token strings of the configuration are numbers below 0, apart from the  *)
(* tokens of the identity provider, which are numbers from 0.              *)

TRIAL_TOKEN == -1

\* a token the application supplies
StaticToken == -2

\* the string ""
EmptyString == -3

\* IntegraConfig.from_dict: the config, None when it raises ValueError
FromDict(env, token, auth_manager) ==
    IF auth_manager
    THEN Some([environment |-> env,
               token |-> IF token # None THEN Val(token) ELSE EmptyString,
               auth_manager |-> TRUE])
    ELSE IF env = "Trial"
    THEN Some([environment |-> env,
               token |-> IF token # None THEN Val(token) ELSE TRIAL_TOKEN,
               auth_manager |-> FALSE])
    ELSE IF token = None \/ Val(token) = EmptyString
    THEN None
    ELSE Some([environment |-> env, token |-> Val(token),
               auth_manager |-> FALSE])

TokenArgs == {None, Some(StaticToken), Some(EmptyString)}

Configs ==
    {Val(c) : c \in {FromDict(env, token, auth_manager) :
                        env \in Environments, token \in TokenArgs,
                        auth_manager \in BOOLEAN} \ {None}}

\* the content of a response: a JSON object, other JSON, or no JSON
BodyKinds == {"object", "array", "text"}

\* response.json() and response.text of a body
Json(body) == [json |-> TRUE, kind |-> body]

Text(body) == [json |-> FALSE, kind |-> body]

\* lines 85-88 and 104-107: response.json(), or what replaces it when it raises
JsonOr(body, other) == IF body \in {"object", "array"} THEN Json(body) ELSE other

IsDict(error_body) == error_body.json /\ error_body.kind = "object"

\* a token file whose token has an empty jwt_token
EmptyJwtFile ==
    [EarlierToken(BUFFER + 2, Some(0)) EXCEPT !.jwt_token = Some(EmptyString)]

ExecInit ==
    /\ Constructed
    /\ environment \in Environments
    /\ now = 0
    /\ cached_token = None
    /\ token_expires_at = None
    /\ token_file \in {None, Some(EarlierToken(BUFFER + 2, Some(0))),
                       Some(EmptyJwtFile)}
    /\ config_file =
         IF environment = "Production" THEN Some(ConfigData) ELSE None
    /\ pc = [c \in Callers |-> "idle"]
    /\ req = [c \in Callers |-> 0]
    /\ overlapped = [c \in Callers |-> FALSE]
    /\ posts = [c \in Callers |-> 0]
    /\ result = NoResult
    /\ netCalls = 0
    /\ hist = [windowEnd |-> None, guardedEnd |-> None, cleared |-> "none"]
    /\ max_retries \in {-1, 0, 1}
    /\ retry_backoff = 1
    /\ client = FALSE
    /\ hpc = "idle"
    /\ attempt = 0
    /\ backoff = 0
    /\ last_exception = None
    /\ log = <<>>
    /\ sleeps = <<>>
    /\ outcome = NoOutcome
    /\ config \in Configs
    /\ xpc = "idle"
    /\ x_token = None
    /\ x_jwt_token = None
    /\ headers = NoHeaders
    /\ xout = NoExecution

\* variant: a token of the configuration is preferred to the manager's
ExecuteCallPrefersStatic ==
    /\ xpc = "idle"
    /\ hpc = "idle"
    /\ headers' = NoHeaders
    /\ xout' = NoExecution
    /\ x_jwt_token' = None
    /\ IF config.auth_manager /\ config.token = EmptyString
       THEN /\ client' = TRUE
            /\ x_token' = None
            /\ xpc' = "get_token"
       ELSE /\ x_token' = Some(config.token)
            /\ xpc' = "headers"
            /\ UNCHANGED client
    /\ UNCHANGED <<config, max_retries, retry_backoff, hpc, attempt, backoff,
                   last_exception, log, sleeps, outcome, authVars, ctorVars>>

\* lines 47-56: execute is called; with an auth manager session.client is
\* made for get_token's argument, without one the token is the config's
ExecuteCall ==
    /\ xpc = "idle"
    /\ hpc = "idle"
    /\ headers' = NoHeaders
    /\ xout' = NoExecution
    /\ x_jwt_token' = None
    /\ IF config.auth_manager
       THEN /\ client' = TRUE
            /\ x_token' = None
            /\ xpc' = "get_token"
       ELSE /\ x_token' = Some(config.token)
            /\ xpc' = "headers"
            /\ UNCHANGED client
    /\ UNCHANGED <<config, max_retries, retry_backoff, hpc, attempt, backoff,
                   last_exception, log, sleeps, outcome, authVars, ctorVars>>

\* variant: what get_token raises is wrapped into an HTTPError of status 0
ExecuteGotTokenInsideTry ==
    /\ UNCHANGED <<config, headers>>
    /\ IF result'.kind = "token"
       THEN /\ x_token' = Some(Val(result'.token).access_token)
            /\ x_jwt_token' = Some(Val(result'.token).jwt_token)
            /\ xpc' = "headers"
            /\ UNCHANGED xout
       ELSE IF result'.kind = "error"
       THEN /\ xout' = [NoExecution EXCEPT
                          !.kind = "raised", !.error = "HTTPError",
                          !.status_code = Some(0)]
            /\ xpc' = "idle"
            /\ UNCHANGED <<x_token, x_jwt_token>>
       ELSE /\ xpc' = "wait_token"
            /\ UNCHANGED <<x_token, x_jwt_token, xout>>

\* lines 52-54, when the step of get_token that was taken ended it: the token
\* it returned is taken, the AuthError or HTTPError it raised leaves execute
ExecuteGotToken ==
    /\ UNCHANGED <<config, headers>>
    /\ IF result'.kind = "token"
       THEN /\ x_token' = Some(Val(result'.token).access_token)
            /\ x_jwt_token' = Some(Val(result'.token).jwt_token)
            /\ xpc' = "headers"
            /\ UNCHANGED xout
       ELSE IF result'.kind = "error"
       THEN /\ xout' = [NoExecution EXCEPT
                          !.kind = "raised", !.error = result'.error,
                          !.status_code = result'.status_code]
            /\ xpc' = "idle"
            /\ UNCHANGED <<x_token, x_jwt_token>>
       ELSE /\ xpc' = "wait_token"
            /\ UNCHANGED <<x_token, x_jwt_token, xout>>

\* line 52: get_token is called
ExecuteGetToken ==
    /\ xpc = "get_token"
    /\ GetTokenCall(FirstCaller)
    /\ ExecuteGotToken

\* line 52: the identity provider answers get_token's request
ExecuteTokenResponse ==
    /\ xpc = "wait_token"
    /\ \/ GetTokenResponse200(FirstCaller)
       \/ GetTokenResponseError(FirstCaller)
       \/ GetTokenRequestException(FirstCaller)
    /\ ExecuteGotToken

\* variant: the jwt_token header is sent in every environment
BuildHeadersAlwaysJwt ==
    [Authorization |-> x_token,
     content_type |-> "application/json",
     jwt_token |-> IF x_jwt_token # None /\ Val(x_jwt_token) # EmptyString
                   THEN x_jwt_token
                   ELSE None]

\* lines 60-68: the headers of the request
BuildHeaders ==
    [Authorization |-> x_token,
     content_type |-> "application/json",
     jwt_token |-> IF /\ x_jwt_token # None
                      /\ Val(x_jwt_token) # EmptyString
                      /\ config.environment = "Production"
                   THEN x_jwt_token
                   ELSE None]

\* variant: an API error carries the body whatever it is
RaiseForStatusAnyBody(status, body) ==
    LET error_body == JsonOr(body, Text(body))
        response == Some([status |-> status, body |-> body])
    IN  IF status >= 500
        THEN [NoExecution EXCEPT
                !.kind = "raised", !.error = "HTTPError",
                !.status_code = Some(status),
                !.response_body = Some(error_body), !.response = response]
        ELSE [NoExecution EXCEPT
                !.kind = "raised", !.error = "APIError",
                !.status_code = Some(status),
                !.response_body = Some(error_body), !.response = response]

\* lines 84-101: what execute raises for a response of status >= 400
RaiseForStatus(status, body) ==
    LET error_body == JsonOr(body, Text(body))
        response == Some([status |-> status, body |-> body])
    IN  IF status >= 500
        THEN [NoExecution EXCEPT
                !.kind = "raised", !.error = "HTTPError",
                !.status_code = Some(status),
                !.response_body = Some(error_body), !.response = response]
        ELSE [NoExecution EXCEPT
                !.kind = "raised", !.error = "APIError",
                !.status_code = Some(status),
                !.response_body =
                   IF IsDict(error_body) THEN Some(error_body) ELSE None,
                !.response = response]

\* lines 83-120: how execute ends once session.request has ended with o, for
\* every content the response can have.  A response below 400 is returned
\* parsed; the None of a session that made no attempt has no status_code;
\* an HTTPStatusError carries its response; the others are RequestErrors
ExecuteOutcomes(o) ==
    IF o.kind = "response"
    THEN {IF o.status >= 400
          THEN RaiseForStatus(o.status, body)
          ELSE [NoExecution EXCEPT
                  !.kind = "returned",
                  !.data = Some(JsonOr(body, Json("object"))),
                  !.response = Some([status |-> o.status, body |-> body])]
          : body \in BodyKinds}
    ELSE IF o.kind = "nothing"
    THEN {[NoExecution EXCEPT !.kind = "raised", !.error = "AttributeError"]}
    ELSE IF Val(o.exception).type = "HTTPStatusError"
    THEN {[NoExecution EXCEPT
             !.kind = "raised", !.error = "HTTPError",
             !.status_code = Some(status),
             !.response_body = Some(Text("text"))]
          : status \in {st \in HTTPStatuses : st >= 400}}
    ELSE {[NoExecution EXCEPT
             !.kind = "raised", !.error = "HTTPError",
             !.status_code = Some(0)]}

\* execute goes on with the session's request, and ends when it ends
ExecuteEnds ==
    /\ UNCHANGED <<config, x_token, x_jwt_token>>
    /\ IF hpc' = "idle"
       THEN /\ xout' \in ExecuteOutcomes(outcome')
            /\ xpc' = "idle"
       ELSE /\ xpc' = "request"
            /\ UNCHANGED xout

\* lines 60-81: the headers are built and session.request is called
ExecuteRequest ==
    /\ xpc = "headers"
    /\ headers' = BuildHeaders
    /\ HTTPRequest
    /\ ExecuteEnds

ExecuteAttemptResponse ==
    /\ xpc = "request"
    /\ HTTPAttemptResponse
    /\ UNCHANGED headers
    /\ ExecuteEnds

ExecuteAttemptRetryable ==
    /\ xpc = "request"
    /\ HTTPAttemptRetryable
    /\ UNCHANGED headers
    /\ ExecuteEnds

ExecuteAttemptRaises ==
    /\ xpc = "request"
    /\ HTTPAttemptRaises
    /\ UNCHANGED headers
    /\ ExecuteEnds

ExecuteSleep ==
    /\ xpc = "request"
    /\ HTTPSleep
    /\ UNCHANGED headers
    /\ ExecuteEnds

ExecNext ==
    \/ ExecuteCall
    \/ ExecuteGetToken
    \/ ExecuteTokenResponse
    \/ ExecuteRequest
    \/ ExecuteAttemptResponse
    \/ ExecuteAttemptRetryable
    \/ ExecuteAttemptRaises
    \/ ExecuteSleep

SpecExec == ExecInit /\ [][ExecNext]_vars

----------------------------------------------------------------------------
(* IntegraClient.__init__ (src/src/client.py), on the default storage      *)
(* directory: the auth manager it makes or resumes, and its config.        *)

\* the environment argument, a string
ClientEnvironments == {"Trial", "Production", "Staging"}

\* consumer_key, consumer_secret, certificate_path, certificate_password:
\* none is given, all are, some are, all are with a path that names nothing
NoCredentials == <<None, None, None, None>>

CredentialArgs ==
    {NoCredentials,
     <<Some(" key "), Some("secret"), Some("cert.p12"), Some("pw")>>,
     <<Some(" key "), Some("secret"), None, None>>,
     <<Some(" key "), Some("secret"), Some("other.p12"), Some("pw")>>}

\* a str | None that is truthy
Given(arg) == arg # None /\ Val(arg) # ""

\* lines 59-121.  The steps before from_dict: "error" for a ValueError,
\* "saved" for the manager of the saved config, "new" for AuthManager(...),
\* "none" for no manager
ClientManager(env, credentials) ==
    LET any == \E i \in 1 .. 4: Given(credentials[i])
        all == \A i \in 1 .. 4: Given(credentials[i])
        raised(message) == [kind |-> "error", error |-> message]
    IN  IF env \notin Environments THEN raised("not a valid Environment")
        ELSE IF env = "Production" /\ ~any
        THEN LET r == FromSavedConfigResult(Some(env))
             IN  IF r.kind = "manager" THEN [kind |-> "saved", error |-> ""]
                 ELSE IF r.kind = "error" THEN r
                 ELSE raised("Production environment requires authentication credentials")
        ELSE IF any
        THEN IF env = "Trial"
             THEN raised("Authentication is not required for Trial environment")
             ELSE IF ~all
             THEN raised("All authentication parameters are required")
             ELSE LET message == InitError(Val(credentials[1]),
                                           Val(credentials[2]),
                                           Val(credentials[3]),
                                           Val(credentials[4]), Some(env))
                  IN  IF message # "" THEN raised(message)
                      ELSE [kind |-> "new", error |-> ""]
        ELSE [kind |-> "none", error |-> ""]

\* IntegraClient(environment, config, token, consumer_key, ...)
NewIntegraClient ==
    /\ \E env \in ClientEnvironments, token \in TokenArgs,
          credentials \in CredentialArgs:
         LET m == ClientManager(env, credentials)
             built == FromDict(env, token, m.kind \in {"saved", "new"})
             call == [NoCall EXCEPT !.op = "client",
                                    !.args = <<env, token, credentials>>,
                                    !.found = Found]
             unchanged == /\ manager' = NoManager
                          /\ UNCHANGED <<environment, storage_dir, cached_token,
                                         token_expires_at, config_file>>
         IN  IF m.kind = "error"
             THEN /\ made' = [call EXCEPT !.kind = "error", !.error = m.error]
                  /\ unchanged
                  /\ UNCHANGED config
             ELSE /\ IF m.kind = "saved" THEN FromSavedConfigInit
                     ELSE IF m.kind = "new"
                     THEN AuthManagerInit(Val(credentials[1]),
                                          Val(credentials[2]),
                                          Val(credentials[3]),
                                          Val(credentials[4]), Some(env))
                     ELSE unchanged
                  /\ IF built = None
                     THEN /\ made' = [call EXCEPT
                                        !.kind = "error",
                                        !.error = "Token is required for Production environment"]
                          /\ UNCHANGED config
                     ELSE /\ made' = [call EXCEPT !.kind = "client"]
                          /\ config' = Val(built)
    /\ UNCHANGED <<now, token_file, pc, req, overlapped, posts, result,
                   netCalls, hist, cert, httpVars, xpc, x_token, x_jwt_token,
                   headers, xout>>

NextClient ==
    \/ NewIntegraClient
    \/ CertificateChanges

SpecClient == InitConstruct /\ [][NextClient]_vars

----------------------------------------------------------------------------
(* The properties checked.  What a property calls valid is spelled out     *)
(* here, apart from the manager's own _is_token_valid.                     *)

\* the in-memory token is valid: both slots set and now < expiresAt - 60
MemUsable ==
    /\ cached_token # None
    /\ token_expires_at # None
    /\ now < Val(token_expires_at) - BUFFER

\* the token file holds a token: a JSON object with every field of the
\* persisted format, of type Bearer
FileHoldsToken ==
    /\ token_file # None
    /\ Val(token_file).json_ok
    /\ Val(token_file).expires_in # None
    /\ Val(token_file).token_type # None
    /\ Val(token_file).access_token # None
    /\ Val(token_file).jwt_token # None
    /\ Val(token_file).saved_at # None
    /\ Val(Val(token_file).token_type) \in {"Bearer", "bearer", "BEARER"}

FileToken ==
    [expires_in |-> Val(Val(token_file).expires_in),
     token_type |-> Val(Val(token_file).token_type),
     access_token |-> Val(Val(token_file).access_token),
     jwt_token |-> Val(Val(token_file).jwt_token)]

FileExpiresAt == Val(Val(token_file).saved_at) + Val(Val(token_file).expires_in)

\* the token file holds a valid token
FileUsable == FileHoldsToken /\ now < FileExpiresAt - BUFFER

\* this step is caller c calling get_token
CallStep(c) == pc[c] = "idle" /\ result'.kind # "none" /\ result'.caller = c

\* this step is the response to caller c's request arriving
ResponseStep(c) == pc[c] = "wait" /\ result'.kind # "none" /\ result'.caller = c

(* C1: whenever the in-memory token is valid, a call of get_token returns  *)
(* that token and sends nothing to the identity provider, whatever calls   *)
(* of get_token, clear_cache and clear_stored_token came before.           *)
C1_CachePrecedence ==
    [][\A c \in Callers:
         (CallStep(c) /\ MemUsable) =>
            /\ result'.kind = "token"
            /\ result'.source = "memory"
            /\ result'.token = cached_token
            /\ result'.requests = 0
            /\ netCalls' = netCalls
            /\ pc'[c] = "idle"
            /\ UNCHANGED <<cached_token, token_expires_at, token_file>>]_vars

\* a call is served from memory after an acquisition and a clear_stored_token
\* free stretch: the token in memory is one the provider issued
C1_Witness ==
    /\ result.kind = "token"
    /\ result.source = "memory"
    /\ Val(result.token).access_token > 0
    /\ netCalls > 0

(* C2, as stated: after a successful acquisition at time t with expires_in *)
(* E, no get_token called before t + E - 60 sends a request, whatever the  *)
(* operations in between.                                                  *)
C2_OneAcquisitionPerWindow == result.kind = "sent" => ~result.in_window

(* C2, amended: the same, for an acquisition that no other get_token       *)
(* overlapped and whose token file write succeeded, as long as             *)
(* clear_stored_token has not been called since.                           *)
C2_OneAcquisitionPerGuardedWindow == result.kind = "sent" => ~result.in_guarded

\* inside such a window, after a clear_cache, a call is served from the file
C2_Witness ==
    /\ result.kind = "token"
    /\ result.source = "file"
    /\ Val(result.token).access_token > 0
    /\ Before(hist.guardedEnd)

(* C3, as stated: every token get_token returns, from memory, from the     *)
(* file or freshly acquired, satisfies now < expiresAt - 60 when returned. *)
C3_NeverStale == result.kind = "token" => now < Val(result.expires_at) - BUFFER

(* C3, amended: every token get_token returns from memory or from the file *)
(* satisfies now < expiresAt - 60 when returned, expiresAt being the       *)
(* expiry the manager holds for it; a freshly acquired token is returned   *)
(* as received, with expiresAt = now + expires_in, and satisfies the bound *)
(* exactly when its expires_in exceeds 60.                                 *)
C3_NeverStaleFromCache ==
    result.kind = "token" =>
       /\ result.expires_at = token_expires_at
       /\ result.source \in {"memory", "file"} =>
             now < Val(result.expires_at) - BUFFER
       /\ result.source = "network" =>
             /\ Val(result.expires_at) = now + Val(result.token).expires_in
             /\ (now < Val(result.expires_at) - BUFFER) <=>
                   (Val(result.token).expires_in > BUFFER)

\* a token is served from memory in the last second of its window
C3_Witness ==
    /\ result.kind = "token"
    /\ result.source = "memory"
    /\ now > 0
    /\ now + 1 = Val(result.expires_at) - BUFFER

(* C4: when the in-memory token is absent or invalid and the token file    *)
(* holds a valid token, a call of get_token returns the file's token,      *)
(* sends nothing, and leaves that token in memory with                     *)
(* expiresAt = saved_at + expires_in.                                      *)
C4_DiskStep ==
    [][\A c \in Callers:
         (CallStep(c) /\ ~MemUsable /\ FileUsable) =>
            /\ result'.kind = "token"
            /\ result'.source = "file"
            /\ result'.token = Some(FileToken)
            /\ result'.requests = 0
            /\ netCalls' = netCalls
            /\ pc'[c] = "idle"
            /\ cached_token' = Some(FileToken)
            /\ token_expires_at' = Some(FileExpiresAt)
            /\ UNCHANGED token_file]_vars

\* a token saved earlier than now is promoted from the file
C4_Witness ==
    /\ result.kind = "token"
    /\ result.source = "file"
    /\ FileHoldsToken
    /\ Val(Val(token_file).saved_at) < now
    /\ cached_token = Some(FileToken)

(* C5: once the window has closed for the in-memory token and for the      *)
(* token on disk (each absent, or now >= expiresAt - 60), a call of        *)
(* get_token sends exactly one request and does not return the cached      *)
(* token; the token it returns when the response arrives is the one that   *)
(* response carries; a token with expires_in <= 60 is never served from    *)
(* memory or from the file.                                                *)
C5_ExpiryReacquires ==
    [][\A c \in Callers:
         /\ (/\ CallStep(c)
             /\ cached_token = None \/ ~MemUsable
             /\ token_file = None \/ (FileHoldsToken /\ ~FileUsable))
            => /\ result'.kind = "sent"
               /\ result'.requests = 1
               /\ netCalls' = netCalls + 1
               /\ pc'[c] = "wait"
         /\ (ResponseStep(c) /\ result'.kind = "token")
            => /\ result'.source = "network"
               /\ result'.requests = 1
               /\ Val(result'.token).access_token = req[c]
               /\ result'.token # cached_token
               /\ netCalls' = netCalls
         /\ (CallStep(c) /\ result'.kind = "token")
            => Val(result'.token).expires_in > BUFFER]_vars

\* a request is sent while memory and the file hold a token that was valid
\* once and has expired
C5_Witness ==
    /\ result.kind = "sent"
    /\ cached_token # None
    /\ Val(cached_token).expires_in > BUFFER
    /\ ~MemUsable
    /\ FileHoldsToken
    /\ FileToken = Val(cached_token)
    /\ ~FileUsable

(* C6, as stated: after a successful network acquisition the in-memory     *)
(* cache holds the returned token with expiresAt = acquisition time +      *)
(* expires_in, the token file holds the same token, and in Production the  *)
(* config file has been written again.                                     *)
C6_AcquisitionStored ==
    (result.kind = "token" /\ result.source = "network") =>
       /\ cached_token = result.token
       /\ token_expires_at = Some(now + Val(result.token).expires_in)
       /\ FileHoldsToken
       /\ FileToken = Val(result.token)
       /\ environment = "Production" => config_file = Some(ConfigData)

(* C6, amended: after a successful network acquisition the in-memory cache *)
(* holds the returned token with expiresAt = acquisition time +            *)
(* expires_in; the token file holds the same token, saved at that time,    *)
(* when its write succeeded; in Production the config file has been        *)
(* written again when its write succeeded, and outside Production it is    *)
(* not written.  A write that fails is logged, not raised.                 *)
C6_AcquisitionStoredIfWritten ==
    (result.kind = "token" /\ result.source = "network") =>
       /\ cached_token = result.token
       /\ token_expires_at = Some(now + Val(result.token).expires_in)
       /\ result.token_saved =>
             /\ FileHoldsToken
             /\ FileToken = Val(result.token)
             /\ Val(token_file).saved_at = Some(now)
       /\ result.config_saved =>
             environment = "Production" /\ config_file = Some(ConfigData)
       /\ environment # "Production" => ~result.config_saved

\* a Production acquisition with both writes done
C6_Witness ==
    /\ result.kind = "token"
    /\ result.source = "network"
    /\ result.token_saved
    /\ result.config_saved
    /\ now > 0

(* C7: a 400 response raises CertificateError, 401 and 403 raise           *)
(* InvalidCredentialsError, any other non-2xx status raises AuthError, and *)
(* each error carries the status code and the raw body of the response.    *)
C7_StatusMapping ==
    (result.kind = "error" /\ result.response # None
       /\ Val(result.response).status \notin 200 .. 299) =>
       LET status == Val(result.response).status
       IN  /\ result.error =
                IF status = 400 THEN "CertificateError"
                ELSE IF status \in {401, 403} THEN "InvalidCredentialsError"
                ELSE "AuthError"
           /\ result.status_code = Some(status)
           /\ result.details = Some(Val(result.response).body)

\* a 403 with a body that is no error JSON
C7_Witness ==
    /\ result.kind = "error"
    /\ result.error = "InvalidCredentialsError"
    /\ result.status_code = Some(403)
    /\ result.details = Some("text")

(* C8: a get_token that goes to the network sends exactly one request,     *)
(* whatever the outcome, and a transport failure is raised as an HTTPError *)
(* whose status code is 0 when there is no response.                       *)
C8_OneRequestNoRetry ==
    /\ \A c \in Callers: posts[c] = (IF pc[c] = "wait" THEN 1 ELSE 0)
    /\ result.kind = "sent" => result.requests = 1
    /\ (result.kind \in {"token", "error"}
          /\ result.source \notin {"memory", "file"}) => result.requests = 1
    /\ (result.kind = "token" /\ result.source \in {"memory", "file"}) =>
          result.requests = 0
    /\ (result.kind = "error" /\ result.exception # None) =>
          /\ result.error = "HTTPError"
          /\ result.response = None
          /\ Val(result.exception) = None => result.status_code = Some(0)

\* a transport failure without a response
C8_Witness ==
    /\ result.kind = "error"
    /\ result.exception = Some(None)
    /\ result.error = "HTTPError"
    /\ result.status_code = Some(0)
    /\ result.requests = 1

(* C9: with max_retries = N >= 0 and every attempt failing with a timeout  *)
(* or a network error, HTTPSession.request makes exactly N + 1 attempts    *)
(* (attempt index 0 to N) and then raises the error of the last attempt;   *)
(* no request makes more than N + 1 attempts.                              *)
C9_RetryBoundary ==
    /\ max_retries >= 0 => (Len(log) <= max_retries + 1 /\ attempt \in 0 .. max_retries)
    /\ (outcome.kind = "raised"
          /\ \A i \in 1 .. Len(log): log[i].type \in Retryable) =>
          /\ max_retries >= 0
          /\ Len(log) = max_retries + 1
          /\ outcome.attempts = max_retries + 1
          /\ outcome.exception =
                Some([type |-> log[Len(log)].type, attempt |-> max_retries])
          /\ outcome.exception = last_exception

\* max_retries = 3: four attempts, three sleeps, then the last error is raised
C9_Witness ==
    /\ max_retries = 3
    /\ outcome.kind = "raised"
    /\ \A i \in 1 .. Len(log): log[i].type \in Retryable
    /\ outcome.attempts = 4
    /\ Len(outcome.sleeps) = 3

(* C10: HTTPSession.request ends at the first attempt that receives a      *)
(* response, of any status: the response is returned and no attempt or     *)
(* delay follows; a response on attempt k, after k - 1 retryable failures, *)
(* makes exactly k attempts (a 404 at once: exactly 1).                    *)
C10_ResponseEndsRequest ==
    \A i \in 1 .. Len(log):
       log[i].type = "response" =>
          /\ i = Len(log)
          /\ hpc = "idle"
          /\ outcome.kind = "response"
          /\ outcome.status = log[i].status
          /\ outcome.attempts = i
          /\ outcome.sleeps = sleeps
          /\ Len(sleeps) = i - 1
          /\ \A j \in 1 .. i - 1: log[j].type \in Retryable

\* a 404 on the third attempt, after two retryable failures
C10_Witness ==
    /\ outcome.kind = "response"
    /\ outcome.status = 404
    /\ outcome.attempts = 3
    /\ Len(log) = 3

(* C14: clear_cache drops the in-memory token only: after it the cached    *)
(* token and its expiry are both none, and they stay none until a          *)
(* get_token runs; the token file and the config file are as before the    *)
(* call.                                                                   *)
C14_ClearCacheFrame ==
    [][/\ ClearCache =>
            /\ cached_token' = None
            /\ token_expires_at' = None
            /\ UNCHANGED <<token_file, config_file>>
       /\ hist'.cleared = "clear_cache" =>
            (cached_token' = None /\ token_expires_at' = None)]_vars

\* clear_cache was called on a manager that had acquired a token: memory is
\* empty, the file still holds the acquired token, the config file is there
C14_Witness ==
    /\ hist.cleared = "clear_cache"
    /\ cached_token = None
    /\ FileHoldsToken
    /\ FileToken.access_token > 0
    /\ config_file = Some([ConfigData EXCEPT !.saved_at = Some(0)])
    /\ now > 0

(* C15: on a manager that has obtained a token, the first get_token after  *)
(* clear_cache sends a request to the identity provider instead of         *)
(* returning a token obtained before.                                      *)
C15_ClearCacheForcesAcquisition ==
    (result.kind \in {"token", "sent"} /\ result.after = "clear_cache"
       /\ netCalls > 0) =>
       result.kind = "sent"

(* C16: clear_stored_token empties the in-memory cache and deletes the     *)
(* token file if present; when the deletion fails the call still returns,  *)
(* with the cache emptied and the file left; the config file is untouched; *)
(* when the file is gone after it, the next get_token sends a request.     *)
C16_ClearStoredToken ==
    [][/\ ClearStoredToken =>
            /\ cached_token' = None
            /\ token_expires_at' = None
            /\ token_file' = None \/ token_file' = token_file
            /\ token_file = None => token_file' = None
            /\ config_file' = config_file
            /\ hist'.cleared = "clear_stored_token"
       /\ \A c \in Callers:
            (CallStep(c) /\ hist.cleared = "clear_stored_token"
               /\ token_file = None) =>
               /\ result'.kind = "sent"
               /\ result'.requests = 1
               /\ netCalls' = netCalls + 1]_vars

\* a request is sent right after clear_stored_token, inside the window of a
\* token acquired before
C16_Witness ==
    /\ result.kind = "sent"
    /\ result.after = "clear_stored_token"
    /\ result.in_window
    /\ token_file = None
    /\ cached_token = None

(* C17: _is_token_valid is true exactly when a token and an expiry are     *)
(* present and now < expiresAt - 60: it is false without a token or        *)
(* without an expiry, false for a token that expires within the next 60    *)
(* seconds, true for one that expires later; a token acquired with         *)
(* expires_in > 60 is valid right after the acquisition and invalid once   *)
(* expires_in - 60 seconds have passed since.                              *)
C17_ValidityCheck ==
    LET token == Some(TokenResponse(IssuedToken(1, BUFFER + 2, "Bearer")))
    IN  /\ \A d \in {-1, 0, 1, BUFFER - 1, BUFFER}:
              ~IsTokenValid(token, Some(now + d))
        /\ \A d \in {BUFFER + 1, BUFFER + 2}: IsTokenValid(token, Some(now + d))
        /\ cached_token = None => ~IsTokenValid(None, Some(now + BUFFER + 1))
        /\ token_expires_at = None => ~IsTokenValid(token, None)
        /\ (cached_token = None \/ token_expires_at = None) =>
              ~IsTokenValid(None, None)
        /\ (cached_token # None /\ token_expires_at # None) =>
              (IsTokenValid(None, None) <=>
                 now < Val(token_expires_at) - BUFFER)
        /\ (result.kind = "token" /\ result.source = "network"
              /\ Val(result.token).expires_in > BUFFER) =>
              IsTokenValid(None, None)
        /\ (result.kind = "token" /\ result.source = "network"
              /\ Val(result.token).expires_in <= BUFFER) =>
              ~IsTokenValid(None, None)

\* the window of a token acquired with expires_in > 60 has just closed
C17_Witness ==
    /\ cached_token # None
    /\ Val(cached_token).access_token > 0
    /\ Val(cached_token).expires_in > BUFFER
    /\ token_expires_at = Some(Val(cached_token).expires_in)
    /\ now = Val(token_expires_at) - BUFFER
    /\ ~IsTokenValid(None, None)

----------------------------------------------------------------------------
\* exceptions that are a ValueError: pydantic's ValidationError is a subclass
ValueErrors == {"ValueError", "ValidationError"}

(* C18: constructing an AuthManager fails with a ValueError when the       *)
(* consumer key or the consumer secret is empty, when the certificate path *)
(* or the certificate password is empty, and when the certificate path     *)
(* names nothing or names a directory; the failed construction leaves the  *)
(* storage directory, the config file and the token file as it found them. *)
C18_ConstructorRejects ==
    made.op = "construct" =>
       LET consumer_key == made.args[1]
           consumer_secret == made.args[2]
           certificate_path == made.args[3]
           certificate_password == made.args[4]
           names == IF Resolve(certificate_path) = "/abs/cert.p12"
                    THEN made.found.cert ELSE "missing"
           rejected == \/ consumer_key = ""
                       \/ consumer_secret = ""
                       \/ certificate_path = ""
                       \/ certificate_password = ""
                       \/ names \in {"missing", "dir"}
       IN  /\ rejected =>
                /\ made.kind = "error"
                /\ made.error # ""
                /\ InitErrorType(made.error) \in ValueErrors
           /\ made.kind = "error" =>
                /\ manager = NoManager
                /\ config_file = made.found.config_file
                /\ token_file = made.found.token_file
                /\ storage_dir = made.found.storage_dir
           /\ made.kind \in {"error", "manager"}

\* the certificate path names a directory, the storage directory holds a
\* config file and a token file: the construction failed and both are there
C18_Witness ==
    /\ made.op = "construct"
    /\ made.kind = "error"
    /\ made.error = "Certificate path is not a file"
    /\ made.args[1] = " key "
    /\ made.found.cert = "dir"
    /\ config_file # None
    /\ token_file # None

(* C19 as stated: constructing a Production manager writes config.json,    *)
(* and no operation on a Trial manager (construction, get_token,           *)
(* save_config, the clear operations) ever writes it.                      *)
C19_ConfigOnlyInProduction ==
    [][/\ (Construct /\ environment = "Production") =>
             \E w \in WriteOutcomes:
                config_file' = Written(config_file, ConfigData', BadConfig, w)
       /\ environment = "Trial" => config_file' = config_file]_vars

(* C19: the constructor and get_token write config.json only in the        *)
(* Production environment: constructing a Production manager overwrites    *)
(* it at once (a write that fails leaves the file as it was, or            *)
(* truncated), and on a Trial manager construction, get_token and the      *)
(* clear operations never write it; only an explicit save_config call      *)
(* does, in either environment.                                            *)
C19_ConfigWrites ==
    [][/\ (Construct /\ environment = "Production") =>
             \E w \in WriteOutcomes:
                config_file' = Written(config_file, ConfigData', BadConfig, w)
       /\ (environment = "Trial" /\ config_file' # config_file) => SaveConfig
       /\ SaveConfig =>
             \E w \in WriteOutcomes:
                config_file' = Written(config_file, ConfigData, BadConfig, w)
       /\ (Construct \/ ClearCache \/ ClearStoredToken
             \/ \E c \in Callers: CallStep(c)) =>
             (environment = "Trial" => config_file' = config_file)]_vars

\* a Trial manager whose config.json its own save_config call wrote
C19_Witness ==
    /\ environment = "Trial"
    /\ now > 0
    /\ config_file = Some(ConfigData)
    /\ Val(config_file).environment = Some("Trial")

(* C20: from_saved_config, asked for no environment or for one of the two  *)
(* environments, returns nothing, and raises no exception, when no saved   *)
(* config exists, when the saved environment differs from the requested    *)
(* one, and when the saved certificate path is not a usable file; it       *)
(* returns a manager only when none of these holds.                        *)
C20_FromSavedConfigReturnsNothing ==
    (/\ made.op = "from_saved_config"
     /\ (made.args[1] = None \/ Val(made.args[1]) \in Environments)) =>
       LET saved_config == LoadConfig(made.found.config_file)
           env == made.args[1]
           no_config == made.found.config_file = None
           differs == /\ saved_config # None
                      /\ env # None
                      /\ Val(env) # Val(saved_config).environment
           unusable == /\ saved_config # None
                       /\ \/ Resolve(Val(saved_config).certificate_path)
                               # "/abs/cert.p12"
                          \/ made.found.cert # "file"
           nothing_case == no_config \/ differs \/ unusable
       IN  /\ nothing_case => made.kind = "nothing"
           /\ made.kind = "manager" => ~nothing_case

\* the response execute received was a response the session did not retry:
\* it is the last attempt of the request and its only response
NotRetriedResponse(status) ==
    /\ Len(log) >= 1
    /\ log[Len(log)] = Response(status)
    /\ \A i \in 1 .. Len(log) - 1: log[i].type # "response"

(* C11 as stated: a response of status >= 500 raises a server error, one   *)
(* of status 400-499 an API error; both carry the status code and the      *)
(* body, parsed when it is JSON and as raw text when it is not; the        *)
(* response is not retried.                                                *)
C11_ErrorsCarryBody ==
    (xout.response # None /\ Val(xout.response).status >= 400) =>
       LET status == Val(xout.response).status
           body == Val(xout.response).body
       IN  /\ xout.kind = "raised"
           /\ xout.error = IF status >= 500 THEN "HTTPError" ELSE "APIError"
           /\ xout.status_code = Some(status)
           /\ xout.response_body =
                Some(IF body \in {"object", "array"} THEN Json(body)
                     ELSE Text(body))
           /\ NotRetriedResponse(status)

(* C11: a response of status >= 500 raises HTTPError with the status code  *)
(* and the body, parsed when it is JSON and as raw text when it is not; a  *)
(* response of status 400-499 raises APIError with the status code, and    *)
(* with the parsed body only when the body is a JSON object: APIError      *)
(* carries no body when the body is other JSON or not JSON.  The response  *)
(* is not retried; a response below 400 raises neither.                    *)
C11_ErrorClassification ==
    xout.response # None =>
       LET status == Val(xout.response).status
           body == Val(xout.response).body
       IN  /\ status < 400 => xout.kind = "returned"
           /\ status >= 500 =>
                /\ xout.kind = "raised"
                /\ xout.error = "HTTPError"
                /\ xout.status_code = Some(status)
                /\ xout.response_body =
                     Some(IF body \in {"object", "array"} THEN Json(body)
                          ELSE Text(body))
           /\ (status >= 400 /\ status <= 499) =>
                /\ xout.kind = "raised"
                /\ xout.error = "APIError"
                /\ xout.status_code = Some(status)
                /\ xout.response_body =
                     IF body = "object" THEN Some(Json(body)) ELSE None
           /\ NotRetriedResponse(status)

\* a 404 whose body is not JSON, received after a timeout that was retried
C11_Witness ==
    /\ xout.error = "APIError"
    /\ xout.status_code = Some(404)
    /\ Val(xout.response).body = "text"
    /\ xout.response_body = None
    /\ Len(log) = 2
    /\ log[1].type = "TimeoutException"

(* C12: the jwt_token header is sent only when the config's environment is *)
(* Production and the token comes from the auth manager and has a          *)
(* non-empty jwt_token, which is the header's value; in Trial, and with a  *)
(* static token, it is not sent.  Every request carries Authorization with *)
(* a token and Content-Type application/json.                              *)
C12_JwtHeader ==
    /\ hpc # "idle" => headers # NoHeaders
    /\ headers # NoHeaders =>
         /\ headers.content_type = "application/json"
         /\ headers.Authorization # None
         /\ headers.Authorization = x_token
         /\ headers.jwt_token # None =>
              /\ config.environment = "Production"
              /\ config.auth_manager
              /\ result.kind = "token"
              /\ headers.jwt_token = Some(Val(result.token).jwt_token)
              /\ Val(headers.jwt_token) # EmptyString
         /\ (config.environment = "Trial" \/ ~config.auth_manager) =>
              headers.jwt_token = None

\* a request in Production carries the jwt_token of a token just acquired
C12_Witness ==
    /\ hpc = "attempt"
    /\ config.environment = "Production"
    /\ headers.jwt_token # None
    /\ Val(headers.jwt_token) > 0
    /\ result.source = "network"

(* C13: execute calls get_token if and only if an auth manager is          *)
(* configured.  Without one the Bearer is the config's token and the       *)
(* identity provider is never contacted; with one the Bearer is the        *)
(* access token get_token returned, never the config's token.              *)
C13_TokenResolution ==
    /\ ~config.auth_manager =>
         /\ result = NoResult
         /\ netCalls = 0
         /\ ~InFlight(FirstCaller)
         /\ xpc \notin {"get_token", "wait_token"}
         /\ headers # NoHeaders => headers.Authorization = Some(config.token)
    /\ config.auth_manager =>
         /\ xpc \in {"headers", "request"} => result.kind = "token"
         /\ headers # NoHeaders =>
              /\ result.kind = "token"
              /\ headers.Authorization =
                   Some(Val(result.token).access_token)
              /\ headers.Authorization # Some(config.token)

\* a config with an auth manager and a token of its own: the request carries
\* the token get_token acquired
C13_Witness ==
    /\ config.auth_manager
    /\ config.token = StaticToken
    /\ hpc = "attempt"
    /\ result.kind = "token"
    /\ result.source = "network"
    /\ headers.Authorization = Some(Val(result.token).access_token)

----------------------------------------------------------------------------
\* the managers that valid arguments construct
ValidManagers == {TheManager, OtherManager}

(* C21: a save_config that wrote the file, followed by load_config on the  *)
(* same storage directory, returns the manager's consumer key, consumer    *)
(* secret, certificate path, certificate password and environment; and     *)
(* from_saved_config on a config a manager saved, its certificate still in *)
(* place and no other environment asked for, yields a manager holding      *)
(* exactly those values, in that environment.                              *)
C21_ConfigRoundTrip ==
    [][/\ (SaveConfig /\ config_file' = Some(ConfigData)) =>
            /\ LoadConfig(config_file') # None
            /\ LET c == Val(LoadConfig(config_file'))
               IN  /\ c.consumer_key = manager.consumer_key
                   /\ c.consumer_secret = manager.consumer_secret
                   /\ c.certificate_path = manager.certificate_path
                   /\ c.certificate_password = manager.certificate_password
                   /\ c.environment = environment
       /\ \A m \in ValidManagers, e \in Environments, t \in 0 .. MaxTime:
            (/\ made'.op = "from_saved_config"
             /\ made'.found.config_file = Some(ConfigDataOf(m, e, t))
             /\ made'.found.cert = "file"
             /\ made'.args[1] \in {None, Some(e)}) =>
               /\ made'.kind = "manager"
               /\ manager' = m
               /\ environment' = e]_vars

\* a manager of other credentials saved its config in Trial, and
\* from_saved_config made a manager of it
C21_Witness ==
    /\ made.op = "from_saved_config"
    /\ made.kind = "manager"
    /\ manager = OtherManager
    /\ environment = "Trial"
    /\ made.found.config_file = Some(ConfigDataOf(manager, "Trial", 0))

----------------------------------------------------------------------------
(* C22: once get_token has saved the token it acquired to the token file,  *)
(* loading the file yields a token with the same access_token, jwt_token   *)
(* and expires_in, and an expiry of saved_at + expires_in, saved_at being  *)
(* the time of the save; loading it later yields the same.                 *)
C22_TokenRoundTrip ==
    [][/\ \A c \in Callers:
            (ResponseStep(c) /\ result'.kind = "token"
               /\ result'.token_saved) =>
               /\ token_file' # None
               /\ Val(token_file').saved_at = Some(now)
               /\ LoadTokenFromFile'[1] # None
               /\ LET saved == Val(result'.token)
                      loaded == Val(LoadTokenFromFile'[1])
                  IN  /\ loaded.access_token = saved.access_token
                      /\ loaded.jwt_token = saved.jwt_token
                      /\ loaded.jwt_token = JwtOf(saved.access_token)
                      /\ loaded.expires_in = saved.expires_in
                      /\ LoadTokenFromFile'[2] = Some(now + saved.expires_in)
       /\ (token_file' = token_file /\ token_file # None
             /\ Val(token_file).saved_at # None) =>
               LoadTokenFromFile' = LoadTokenFromFile]_vars

\* a token saved at time 1 is loaded at time 2 by a get_token that finds
\* memory empty
C22_Witness ==
    /\ result.kind = "token"
    /\ result.source = "file"
    /\ Val(result.token).access_token > 0
    /\ token_file # None
    /\ Val(token_file).saved_at = Some(1)
    /\ now = 2
    /\ result.expires_at = Some(1 + Val(result.token).expires_in)

----------------------------------------------------------------------------
(* C23: IntegraClient in Trial without a token uses the fixed trial token  *)
(* and with a token uses that token; in Production without a token, no     *)
(* credentials given and none saved, it fails with a ValueError; in        *)
(* Production with a static token and no credentials it is constructed and *)
(* uses that token.                                                        *)
C23_ClientTokenRules ==
    (made.op = "client" /\ made.args[3] = NoCredentials) =>
       LET env == made.args[1]
           token == made.args[2]
           saved == LoadConfig(made.found.config_file) # None
       IN  /\ (env = "Trial" /\ token = None) =>
                /\ made.kind = "client"
                /\ config.token = TRIAL_TOKEN
                /\ ~config.auth_manager
           /\ (env = "Trial" /\ token # None) =>
                /\ made.kind = "client"
                /\ config.token = Val(token)
                /\ ~config.auth_manager
           /\ (env = "Production" /\ token = None /\ ~saved) =>
                made.kind = "error"
           /\ (env = "Production" /\ token = Some(StaticToken)) =>
                /\ made.kind = "client"
                /\ config.token = StaticToken
                /\ ~config.auth_manager

----------------------------------------------------------------------------
(* C24: a get_token whose network step fails (any status but 200, an       *)
(* exception of the transport, a 200 whose body is no valid token) raises, *)
(* and neither its request nor its failure changes the in-memory token,    *)
(* its expiry, the token file or the config file.                          *)
C24_FailedAcquisitionChangesNothing ==
    [][\A c \in Callers:
         /\ (CallStep(c) /\ result'.kind = "sent") =>
               UNCHANGED <<cached_token, token_expires_at, token_file,
                           config_file>>
         /\ ResponseStep(c) =>
               /\ result'.kind \in {"token", "error"}
               /\ result'.kind = "token" =>
                    /\ result'.response # None
                    /\ Val(result'.response).status = 200
                    /\ Lower(Val(result'.token).token_type) = "bearer"
               /\ result'.kind = "error" =>
                    UNCHANGED <<cached_token, token_expires_at, token_file,
                                config_file>>]_vars

\* a 200 whose token is not a Bearer token, received when memory and both
\* files hold what an earlier acquisition left
C24_Witness ==
    /\ result.kind = "error"
    /\ result.response = Some([status |-> 200, body |-> "token_json"])
    /\ cached_token # None
    /\ Val(cached_token).access_token > 0
    /\ token_file # None
    /\ config_file # None

----------------------------------------------------------------------------
----------------------------------------------------------------------------
\* the token file is a JSON object with these fields
FileHas(fields) ==
    /\ token_file # None
    /\ Val(token_file).json_ok
    /\ "expires_in" \in fields => Val(token_file).expires_in # None
    /\ "token_type" \in fields => Val(token_file).token_type # None
    /\ "access_token" \in fields => Val(token_file).access_token # None
    /\ "jwt_token" \in fields => Val(token_file).jwt_token # None
    /\ "saved_at" \in fields => Val(token_file).saved_at # None

RequiredFields == {"expires_in", "token_type", "access_token", "jwt_token"}

(* C26 as stated: when the token file is not valid JSON, or lacks one of   *)
(* access_token, jwt_token, token_type, expires_in and saved_at, a call of *)
(* get_token does not fail, returns no token taken from the file, and      *)
(* sends a request unless memory holds a valid token.                      *)
C26_DeficientFileIgnored ==
    [][\A c \in Callers:
         (CallStep(c) /\ ~FileHas(RequiredFields \cup {"saved_at"})) =>
            /\ result'.kind \in {"token", "sent"}
            /\ result'.kind = "token" => result'.source = "memory"
            /\ ~MemUsable =>
                  (result'.kind = "sent" /\ netCalls' = netCalls + 1)]_vars

(* C26: when the token file is not valid JSON, or lacks one of             *)
(* access_token, jwt_token, token_type and expires_in, a call of get_token *)
(* does not fail, returns no token taken from the file, and sends a        *)
(* request unless memory holds a valid token.  A file that lacks saved_at  *)
(* only is loaded as saved at the time of the call: its token is returned  *)
(* without a request when its expires_in exceeds the buffer.               *)
C26_DeficientFileIgnoredUnlessSavedAt ==
    [][\A c \in Callers:
         /\ (CallStep(c) /\ ~FileHas(RequiredFields)) =>
               /\ result'.kind \in {"token", "sent"}
               /\ result'.kind = "token" => result'.source = "memory"
               /\ ~MemUsable =>
                     (result'.kind = "sent" /\ netCalls' = netCalls + 1)
         /\ (/\ CallStep(c)
             /\ FileHas(RequiredFields)
             /\ ~FileHas({"saved_at"})
             /\ Lower(Val(Val(token_file).token_type)) = "bearer"
             /\ ~MemUsable) =>
               IF Val(Val(token_file).expires_in) > BUFFER
               THEN /\ result'.kind = "token"
                    /\ result'.source = "file"
                    /\ Val(result'.token).access_token =
                          Val(Val(token_file).access_token)
                    /\ result'.expires_at =
                          Some(now + Val(Val(token_file).expires_in))
                    /\ netCalls' = netCalls
               ELSE result'.kind = "sent"]_vars

\* a call has found a file without access_token and has sent its request
C26_Witness ==
    /\ result.kind = "sent"
    /\ netCalls = 1
    /\ FileHas({"expires_in", "token_type", "jwt_token", "saved_at"})
    /\ ~FileHas({"access_token"})

----------------------------------------------------------------------------
\* the factor of the delay after n doublings (backoff *= 2)
Doubled(n) == 2 ^ n

(* C27: HTTPSession.request sleeps between attempts only: no delay before  *)
(* the first attempt, none after the attempt that ends the request, so a   *)
(* request of A attempts has slept at most A - 1 times (exactly A - 1 once *)
(* it has ended); there are at most max_retries delays and the k-th is     *)
(* retry_backoff * 2^(k-1).                                                *)
C27_BackoffBetweenAttempts ==
    /\ Len(log) = 0 => sleeps = <<>>
    /\ hpc = "attempt" => Len(sleeps) = Len(log)
    /\ hpc = "sleep" => (Len(sleeps) = Len(log) - 1 /\ attempt < max_retries)
    /\ (hpc = "idle" /\ Len(log) > 0) =>
          /\ Len(sleeps) = Len(log) - 1
          /\ outcome.sleeps = sleeps
          /\ outcome.attempts = Len(log)
    /\ Len(sleeps) > 0 => Len(sleeps) <= max_retries
    /\ \A k \in 1 .. Len(sleeps): sleeps[k] = retry_backoff * Doubled(k - 1)
    /\ hpc # "idle" => backoff = retry_backoff * Doubled(Len(sleeps))

\* max_retries = 3, base 2: four failed attempts with delays 2, 4, 8 between
C27_Witness ==
    /\ max_retries = 3
    /\ retry_backoff = 2
    /\ hpc = "idle"
    /\ outcome.kind = "raised"
    /\ Len(log) = 4
    /\ sleeps = <<2, 4, 8>>

----------------------------------------------------------------------------
(* C28: with an auth manager, execute resolves the token before the        *)
(* business call: while get_token runs no business request has been        *)
(* started, the request starts only from a token get_token returned, and   *)
(* when get_token raises, execute ends with that same error (type and      *)
(* status code) and the session has made no request for it.                *)
C28_TokenBeforeRequest ==
    [][config.auth_manager =>
         /\ xpc' \in {"get_token", "wait_token"} =>
               (hpc' = "idle" /\ headers' = NoHeaders)
         /\ (xpc = "headers" /\ xpc' # "headers") =>
               /\ result.kind = "token"
               /\ headers'.Authorization =
                     Some(Val(result.token).access_token)
               /\ log' = <<>>
         /\ (xpc \in {"get_token", "wait_token"} /\ result'.kind = "error") =>
               /\ xpc' = "idle"
               /\ xout'.kind = "raised"
               /\ xout'.error = result'.error
               /\ xout'.status_code = result'.status_code
               /\ xout'.response = None
               /\ headers' = NoHeaders
               /\ hpc' = "idle"
               /\ UNCHANGED <<log, sleeps, outcome>>]_vars

\* the identity provider refused the credentials: execute has raised
\* InvalidCredentialsError and built no request
C28_Witness ==
    /\ config.auth_manager
    /\ xpc = "idle"
    /\ result.kind = "error"
    /\ result.error = "InvalidCredentialsError"
    /\ xout.kind = "raised"
    /\ xout.error = "InvalidCredentialsError"
    /\ headers = NoHeaders

----------------------------------------------------------------------------
\* no get_token is in flight
Quiescent == \A c \in Callers: ~InFlight(c)

----------------------------------------------------------------------------
\* the token was in the token file that the construction on record found:
\* it was acquired before this manager existed, with the credentials of the
\* manager that had the storage directory then
AcquiredBefore(token) ==
    /\ made.op = "construct"
    /\ made.kind = "manager"
    /\ made.found.token_file # None
    /\ Val(made.found.token_file).json_ok
    /\ Val(made.found.token_file).access_token = Some(token.access_token)

(* C30: every token get_token returns was acquired with the manager's own  *)
(* credentials: a manager constructed with other credentials on a storage  *)
(* directory never returns a token the directory held when it was          *)
(* constructed, which the manager before it acquired.                      *)
C30_TokenProvenance ==
    (result.kind = "token" /\ manager # TheManager) =>
       ~AcquiredBefore(Val(result.token))

====
